---- MODULE Spec2Model ----
(***************************************************************************)
(* Model of daemon/create.go: the container creation path                  *)
(* (containerCreate, create and their helpers) and DeltaCreate.            *)
(***************************************************************************)
EXTENDS Integers, Sequences, FiniteSets, TLC

VARIABLES
    pc,          \* position of the one containerCreate/create call
    params,      \* types.ContainerCreateConfig of the call
    warnings,    \* warnings of verifyContainerSettings
    img,         \* create's local img (resolved image or nil)
    container,   \* create's local container (the allocated object or nil)
    retErr,      \* create's named result retErr
    retC,        \* create's named result retC
    callErr,     \* error returned by containerCreate to its caller
    containers,  \* daemon.containers: registered containers, id -> ProcessLabel
    rwLayers,    \* layer store: ids of the RWLayers that exist
    dirs,        \* file system: container directories that exist
    cleanups,    \* number of calls of daemon.cleanupContainer
    log,         \* logrus error lines
    events,      \* stateCtr.set / LogContainerEvent calls, in order
    env,         \* the build: runtime.GOOS and system.LCOWSupported()
    images,      \* image store: reference -> image
    stepErr,     \* the error of the step of the call that failed, if any
    fn,          \* which helper the helper specifications call
    fnIn,        \* the helper's input
    fnOut,       \* the helper's result
    dc,          \* DeltaCreate: its position and local variables
    ls,          \* DeltaCreate: the layer store (registrations, references)
    is,          \* DeltaCreate: the images created in the image store
    tmp,         \* DeltaCreate: the temporary delta files that exist
    producers,   \* DeltaCreate: the goroutines started, position -> step
    pipes        \* DeltaCreate: the pipes made, position -> state

createVars == <<pc, params, warnings, img, container, retErr, retC, callErr,
                containers, rwLayers, dirs, cleanups, log, events, env,
                images, stepErr>>
fnVars == <<fn, fnIn, fnOut>>
deltaVars == <<dc, ls, is, tmp, producers, pipes>>
vars == <<createVars, fnVars, deltaVars>>

-----------------------------------------------------------------------------
(* Bounds *)

\* number of network names a networking config draws its keys from
MaxNets == 3

\* largest number of layers of an image given to DeltaCreate
MaxLayers == 3

\* largest DiffSize of a destination layer
MaxInputSize == 1

\* largest DiffSize of a registered delta layer
MaxDeltaSize == 1

-----------------------------------------------------------------------------
(* Errors: Go error values. kind "nil" is the nil error. *)

NilErr == [kind |-> "nil", msg |-> <<>>]
Err(k, m) == [kind |-> k, msg |-> m]
StepErr(step) == Err("error", <<step>>)
NoErrYet == [kind |-> "unset", msg |-> <<>>]

-----------------------------------------------------------------------------
(* Slices: Go distinguishes the nil slice from an empty one. *)

NilSlice == [nil |-> TRUE, s |-> <<>>]
Slice(s) == [nil |-> FALSE, s |-> s]
len(sl) == Len(sl.s)

-----------------------------------------------------------------------------
(* verifyNetworkingConfig *)

NetKeys == {"net" \o ToString(i) : i \in 1..MaxNets}

\* addresses a client may send: none, IPv4, IPv4-mapped IPv6, IPv6, malformed
Addrs == {"", "10.0.0.1", "::ffff:10.0.0.1", "fe80::1", "10.0.0.999"}

\* net.ParseIP(a): nil for a malformed address; To4() is non-nil for an IPv4
\* address and for an IPv4-mapped IPv6 address
ParseIP(a) ==
    [nil |-> a \in {"", "10.0.0.999"},
     to4 |-> a \in {"10.0.0.1", "::ffff:10.0.0.1"}]

\* *networktypes.EndpointSettings: nil, without IPAMConfig, or with one
EndpointNil == [nil |-> TRUE, ipam |-> FALSE, v4 |-> "", v6 |-> ""]
EndpointPlain == [nil |-> FALSE, ipam |-> FALSE, v4 |-> "", v6 |-> ""]
EndpointIPAM(a4, a6) == [nil |-> FALSE, ipam |-> TRUE, v4 |-> a4, v6 |-> a6]
Endpoints == {EndpointNil, EndpointPlain}
             \cup {EndpointIPAM(a4, a6) : a4 \in Addrs, a6 \in Addrs}

\* *networktypes.NetworkingConfig: nil, or a map name -> endpoint settings
NetworkingNil == [nil |-> TRUE, EndpointsConfig |-> <<>>]
Networking(m) == [nil |-> FALSE, EndpointsConfig |-> m]

\* the orders in which a range over map m may yield its keys
RangeOrders(m) ==
    {o \in [1..Cardinality(DOMAIN m) -> DOMAIN m] :
        \A i, j \in DOMAIN o : i # j => o[i] # o[j]}

\* strings.Join(l, sep), kept as the sequence of its pieces
RECURSIVE Join(_, _)
Join(l, sep) ==
    IF Len(l) = 0 THEN <<>>
    ELSE IF Len(l) = 1 THEN <<l[1]>>
    ELSE <<l[1], sep>> \o Join(Tail(l), sep)

\* the address checks of the one endpoint (lines 320-331)
verifyEndpointAddresses(v) ==
    IF ~v.nil /\ v.ipam
    THEN IF v.v4 # "" /\ (ParseIP(v.v4).nil \/ ~ParseIP(v.v4).to4)
         THEN Err("BadRequest", <<"invalid IPv4 address: ", v.v4>>)
         ELSE IF v.v6 # "" /\ (ParseIP(v.v6).nil \/ ParseIP(v.v6).to4)
              THEN Err("BadRequest", <<"invalid IPv6 address: ", v.v6>>)
              ELSE NilErr
    ELSE NilErr

\* faulty variant: l is made with len(...) elements instead of capacity len(...), so
\* the appended names follow as many empty strings
verifyNetworkingConfig_MakeLen(nwConfig, order) ==
    IF nwConfig.nil \/ Cardinality(DOMAIN nwConfig.EndpointsConfig) = 0
    THEN NilErr
    ELSE IF Cardinality(DOMAIN nwConfig.EndpointsConfig) = 1
         THEN verifyEndpointAddresses(nwConfig.EndpointsConfig[order[1]])
         ELSE Err("BadRequest",
                  <<"Container cannot be connected to network endpoints: ">>
                  \o Join([i \in 1..Len(order) |-> ""] \o order, ", "))

\* verifyNetworkingConfig(nwConfig); order is the order in which the range
\* over the map yields its keys
verifyNetworkingConfig(nwConfig, order) ==
    IF nwConfig.nil \/ Cardinality(DOMAIN nwConfig.EndpointsConfig) = 0
    THEN NilErr
    ELSE IF Cardinality(DOMAIN nwConfig.EndpointsConfig) = 1
         THEN verifyEndpointAddresses(nwConfig.EndpointsConfig[order[1]])
         ELSE Err("BadRequest",
                  <<"Container cannot be connected to network endpoints: ">>
                  \o Join(order, ", "))

-----------------------------------------------------------------------------
(* generateSecurityOpt *)

\* containertypes.IpcMode / PidMode values
Modes == {"", "host", "private", "container:", "container:c1",
          "container:c2", "container:gone"}
PeerNames == {"c1", "c2", "gone"}

\* IpcMode.IsHost / PidMode.IsHost
IsHost(mode) == mode = "host"

\* IpcMode.Container / PidMode.Container: the name after "container:", or ""
Container(mode) ==
    IF \E n \in PeerNames : mode = "container:" \o n
    THEN CHOOSE n \in PeerNames : mode = "container:" \o n
    ELSE ""

\* A process label "user:role:type:level" is kept as its four fields; the
\* empty sequence is the empty label of a container that runs unlabelled.
NoLabel == <<>>
LabelA == <<"system_u", "system_r", "svirt_lxc_net_t", "s0:c1,c2">>
LabelB == <<"system_u", "system_r", "svirt_lxc_net_t", "s0:c3,c4">>
LabelC == <<"user_u", "system_r", "svirt_lxc_net_t", "s0:c1,c2">>
ProcessLabels == {NoLabel, LabelA, LabelB, LabelC}

\* label.DupSecOpt(src) (line 220, 231)
DupSecOpt(src) ==
    IF src = NoLabel THEN NilSlice
    ELSE IF \E k \in 1..4 : src[k] = "" THEN NilSlice
    ELSE Slice(<<"user:" \o src[1], "role:" \o src[2],
                 "type:" \o src[3], "level:" \o src[4]>>)

\* label.DisableSecOpt() (line 208)
DisableSecOpt == Slice(<<"disable">>)

\* the security options of the model: key=value strings and bare words
OptKeys == {"label", "seccomp", "apparmor", "labels"}
OptVals == {"disable", "type:container_t", "unconfined"}
           \cup UNION {{DupSecOpt(l).s[k] : k \in 1..len(DupSecOpt(l))} :
                          l \in ProcessLabels}
BareOpts == {"no-new-privileges", "label", "label:disable"}

\* strings.Split(opt, "="): its fields (no value of the model holds a "=")
SplitEq(opt) ==
    IF \E k \in OptKeys, v \in OptVals : opt = k \o "=" \o v
    THEN CHOOSE f \in OptKeys \X OptVals : opt = f[1] \o "=" \o f[2]
    ELSE <<opt>>

\* daemon.GetContainer(name) against the registered containers reg
GetContainer(reg, name) ==
    IF name \in DOMAIN reg
    THEN [c |-> [ProcessLabel |-> reg[name]], err |-> NilErr]
    ELSE [c |-> [ProcessLabel |-> NoLabel],
          err |-> Err("NotFound", <<"No such container: ", name>>)]

toHostConfigSelinuxLabels(labels) ==
    IF labels.nil THEN labels
    ELSE Slice([i \in 1..Len(labels.s) |-> "label=" \o labels.s[i]])

SecResult(l, e) == [labels |-> l, err |-> e, panic |-> FALSE]
SecPanic == [labels |-> NilSlice, err |-> NilErr, panic |-> TRUE]

InconsistentLabels ==
    Err("error", <<"--ipc and --pid containers SELinux labels aren't the same">>)

\* the loop of lines 238-242 from index i on (1-based); indexing ipcLabel
\* past its end is a run-time panic
RECURSIVE CompareLabels(_, _, _)
CompareLabels(pidLabel, ipcLabel, i) ==
    IF i > len(pidLabel) THEN SecResult(toHostConfigSelinuxLabels(pidLabel), NilErr)
    ELSE IF i > len(ipcLabel) THEN SecPanic
    ELSE IF pidLabel.s[i] # ipcLabel.s[i] THEN SecResult(NilSlice, InconsistentLabels)
    ELSE CompareLabels(pidLabel, ipcLabel, i + 1)

\* lines 237-245
BothShared(pidLabel, ipcLabel) ==
    IF ~pidLabel.nil /\ ~ipcLabel.nil
    THEN CompareLabels(pidLabel, ipcLabel, 1)
    ELSE SecResult(NilSlice, NilErr)

\* lines 225-245, ipcLabel being what lines 215-224 left
PidPart(reg, ipcContainer, pidContainer, ipcLabel) ==
    IF pidContainer # ""
    THEN LET g == GetContainer(reg, pidContainer) IN
         IF g.err # NilErr THEN SecResult(NilSlice, g.err)
         ELSE LET pidLabel == DupSecOpt(g.c.ProcessLabel) IN
              IF ipcContainer = ""
              THEN SecResult(toHostConfigSelinuxLabels(pidLabel), g.err)
              ELSE BothShared(pidLabel, ipcLabel)
    ELSE BothShared(NilSlice, ipcLabel)

\* lines 211-245
SharedPart(reg, ipcContainer, pidContainer) ==
    IF ipcContainer # ""
    THEN LET g == GetContainer(reg, ipcContainer) IN
         IF g.err # NilErr THEN SecResult(NilSlice, g.err)
         ELSE LET ipcLabel == DupSecOpt(g.c.ProcessLabel) IN
              IF pidContainer = ""
              THEN SecResult(toHostConfigSelinuxLabels(ipcLabel), g.err)
              ELSE PidPart(reg, ipcContainer, pidContainer, ipcLabel)
    ELSE PidPart(reg, ipcContainer, pidContainer, NilSlice)

\* faulty variant: host namespaces and privileged are looked at before the caller's
\* label options
generateSecurityOpt_HostFirst(reg, hostConfig) ==
    IF IsHost(hostConfig.IpcMode) \/ IsHost(hostConfig.PidMode)
       \/ hostConfig.Privileged
    THEN SecResult(toHostConfigSelinuxLabels(DisableSecOpt), NilErr)
    ELSE IF \E k \in 1..Len(hostConfig.SecurityOpt) :
                LET con == SplitEq(hostConfig.SecurityOpt[k]) IN con[1] = "label"
         THEN SecResult(NilSlice, NilErr)
         ELSE SharedPart(reg, Container(hostConfig.IpcMode),
                         Container(hostConfig.PidMode))

\* generateSecurityOpt(hostConfig) of a daemon whose registered containers
\* are reg
generateSecurityOpt(reg, hostConfig) ==
    IF \E k \in 1..Len(hostConfig.SecurityOpt) :
           LET con == SplitEq(hostConfig.SecurityOpt[k]) IN con[1] = "label"
    THEN SecResult(NilSlice, NilErr)
    ELSE IF IsHost(hostConfig.IpcMode) \/ IsHost(hostConfig.PidMode)
            \/ hostConfig.Privileged
         THEN SecResult(toHostConfigSelinuxLabels(DisableSecOpt), NilErr)
         ELSE SharedPart(reg, Container(hostConfig.IpcMode),
                         Container(hostConfig.PidMode))

-----------------------------------------------------------------------------
(* mergeAndVerifyConfig *)

\* merge(userConf, imageConf): the entrypoint and command of the merged config
merge(config, imgConfig) ==
    IF len(config.Entrypoint) = 0
    THEN [Entrypoint |-> IF config.Entrypoint.nil THEN imgConfig.Entrypoint
                         ELSE config.Entrypoint,
          Cmd |-> IF len(config.Cmd) = 0 THEN imgConfig.Cmd ELSE config.Cmd]
    ELSE config

NoCommand == Err("error", <<"No command specified">>)

\* faulty variant: the entrypoint [""] is not reset
mergeAndVerifyConfig_NoReset(config, image) ==
    LET merged == IF ~image.nil /\ image.hasConfig
                  THEN merge(config, image.Config) ELSE config
    IN  [config |-> merged,
         err |-> IF len(merged.Entrypoint) = 0 /\ len(merged.Cmd) = 0
                 THEN NoCommand ELSE NilErr]

\* image: [nil, hasConfig, Config]; returns the config as left by the call
\* and the error
mergeAndVerifyConfig(config, image) ==
    LET merged == IF ~image.nil /\ image.hasConfig
                  THEN merge(config, image.Config) ELSE config
        reset == IF len(merged.Entrypoint) = 1 /\ merged.Entrypoint.s[1] = ""
                 THEN [merged EXCEPT !.Entrypoint = NilSlice] ELSE merged
    IN  [config |-> reset,
         err |-> IF len(reset.Entrypoint) = 0 /\ len(reset.Cmd) = 0
                 THEN NoCommand ELSE NilErr]


-----------------------------------------------------------------------------
(* containerCreate and create: one call, step by step *)

NewID == "new"
NoContainer == [nil |-> TRUE, ID |-> "", ImageID |-> "", RWLayer |-> FALSE,
                MountLabel |-> "", SecurityOpt |-> <<>>, Endpoints |-> <<>>]
Root(id) == <<id>>
CheckpointDir(id) == <<id, "checkpoints">>

NoImage == [nil |-> TRUE, ID |-> "", OS |-> "", hasConfig |-> FALSE,
            Config |-> [Entrypoint |-> NilSlice, Cmd |-> NilSlice]]

\* img.Platform()
Platform(image) == image.OS

\* daemon.GetImage(ref)
GetImage(store, ref) ==
    IF ref \in DOMAIN store THEN [img |-> store[ref], err |-> NilErr]
    ELSE [img |-> NoImage, err |-> Err("ErrImageDoesNotExist", <<ref>>)]

\* daemon.imageNotExistToErrcode(err)
imageNotExistToErrcode(err) ==
    IF err.kind = "ErrImageDoesNotExist"
    THEN Err("RequestNotFound", <<"No such image: ">> \o err.msg)
    ELSE err

\* a return of containerCreate before create is called (lines 51, 56, 61, 69)
ReturnEarly(e) ==
    /\ pc' = "done"
    /\ callErr' = e
    /\ stepErr' = e

\* faulty variant: the deferred function is installed at the top of create
ReturnBeforeDefer_Deferred(e) ==
    /\ pc' = "defer"
    /\ retErr' = e
    /\ stepErr' = e

\* a return of create before the deferred function is installed
\* (lines 103-135): control is back in containerCreate at line 73
ReturnBeforeDefer(e) ==
    /\ pc' = "createReturned"
    /\ retErr' = e
    /\ stepErr' = e

\* a `return nil, err` of create after line 143: the deferred function runs
ReturnErr(e) ==
    /\ pc' = "defer"
    /\ retErr' = e
    /\ stepErr' = e

\* line 50
CheckConfig ==
    /\ pc = "start"
    /\ IF params.ConfigNil
       THEN ReturnEarly(Err("error", <<"Config cannot be empty in order to create a container">>))
       ELSE pc' = "verifySettings" /\ UNCHANGED <<callErr, stepErr>>
    /\ UNCHANGED <<params, warnings, img, container, retErr, retC, containers,
                   rwLayers, dirs, cleanups, log, events, env, images, fnVars, deltaVars>>

\* lines 54-57
VerifyContainerSettings ==
    /\ pc = "verifySettings"
    /\ \E w \in {<<>>, <<"warning">>}, ok \in BOOLEAN :
          /\ warnings' = w
          /\ IF ok THEN pc' = "verifyNet" /\ UNCHANGED <<callErr, stepErr>>
             ELSE ReturnEarly(StepErr("verifyContainerSettings"))
    /\ UNCHANGED <<params, img, container, retErr, retC, containers,
                   rwLayers, dirs, cleanups, log, events, env, images, fnVars, deltaVars>>

\* lines 59-62
VerifyNetworkingConfig ==
    /\ pc = "verifyNet"
    /\ \E order \in RangeOrders(params.NetworkingConfig.EndpointsConfig) :
          LET e == verifyNetworkingConfig(params.NetworkingConfig, order) IN
          IF e = NilErr THEN pc' = "adapt" /\ UNCHANGED <<callErr, stepErr>>
          ELSE ReturnEarly(e)
    /\ UNCHANGED <<params, warnings, img, container, retErr, retC, containers,
                   rwLayers, dirs, cleanups, log, events, env, images, fnVars, deltaVars>>

\* daemon.adaptContainerSettings(hostConfig, adjustCPUShares): defaults
\* host-config fields and adjusts resource settings, none of which create
\* reads; fault tells whether it fails
adaptContainerSettings(hostConfig, fault) ==
    [hostConfig |-> hostConfig,
     err |-> IF fault THEN StepErr("adaptContainerSettings") ELSE NilErr]

\* lines 64-70
AdaptContainerSettings ==
    /\ pc = "adapt"
    /\ \E fault \in BOOLEAN :
          LET hc == [params.HostConfig EXCEPT !.nil = FALSE]
              r == adaptContainerSettings(hc, fault) IN
          /\ params' = [params EXCEPT !.HostConfig = r.hostConfig]
          /\ IF r.err = NilErr
             THEN pc' = "getImage" /\ UNCHANGED <<callErr, stepErr>>
             ELSE ReturnEarly(r.err)
    /\ UNCHANGED <<warnings, img, container, retErr, retC, containers,
                   rwLayers, dirs, cleanups, log, events, env, images, fnVars, deltaVars>>

\* system.LCOWSupported()
LCOWSupported == env.LCOW

\* lines 93-114: default the platform, resolve the image
ResolveImage ==
    /\ pc = "getImage"
    /\ LET platform == IF LCOWSupported THEN "linux"
                       ELSE IF params.Platform = "" THEN env.GOOS
                       ELSE params.Platform
           g == GetImage(images, params.Config.Image) IN
       /\ params' = [params EXCEPT !.Platform = platform]
       /\ IF params.Config.Image # ""
          THEN IF g.err # NilErr
               THEN ReturnBeforeDefer(g.err) /\ UNCHANGED img
               ELSE IF env.GOOS = "solaris" /\ g.img.OS # "solaris "
               THEN /\ ReturnBeforeDefer(Err("error",
                        <<"platform on which parent image was created is not Solaris">>))
                    /\ img' = g.img
               ELSE IF env.GOOS = "windows" /\ g.img.OS = "linux" /\ ~LCOWSupported
               THEN /\ ReturnBeforeDefer(Err("error",
                        <<"platform on which parent image was created is not Windows">>))
                    /\ img' = g.img
               ELSE /\ img' = g.img
                    /\ pc' = "platform"
                    /\ UNCHANGED <<retErr, stepErr>>
          ELSE pc' = "platform" /\ UNCHANGED <<img, retErr, stepErr>>
    /\ UNCHANGED <<warnings, container, retC, callErr, containers,
                   rwLayers, dirs, cleanups, log, events, env, images, fnVars, deltaVars>>

\* lines 117-124
CheckPlatform ==
    /\ pc = "platform"
    /\ IF ~img.nil /\ params.Platform # Platform(img) /\ ~LCOWSupported
       THEN ReturnBeforeDefer(Err("error",
                <<"cannot create a ", params.Platform, " container from a ",
                  Platform(img), " image">>))
       ELSE pc' = "merge" /\ UNCHANGED <<retErr, stepErr>>
    /\ UNCHANGED <<params, warnings, img, container, retC, callErr, containers,
                   rwLayers, dirs, cleanups, log, events, env, images, fnVars, deltaVars>>

\* lines 126-128
MergeAndVerifyConfig ==
    /\ pc = "merge"
    /\ LET r == mergeAndVerifyConfig(
                    [Entrypoint |-> params.Config.Entrypoint,
                     Cmd |-> params.Config.Cmd], img) IN
       /\ params' = [params EXCEPT !.Config.Entrypoint = r.config.Entrypoint,
                                   !.Config.Cmd = r.config.Cmd]
       /\ IF r.err # NilErr THEN ReturnBeforeDefer(r.err)
          ELSE pc' = "logConfig" /\ UNCHANGED <<retErr, stepErr>>
    /\ UNCHANGED <<warnings, img, container, retC, callErr, containers,
                   rwLayers, dirs, cleanups, log, events, env, images, fnVars, deltaVars>>

\* lines 130-132
MergeAndVerifyLogConfig ==
    /\ pc = "logConfig"
    /\ \E ok \in BOOLEAN :
          IF ok THEN pc' = "newContainer" /\ UNCHANGED <<retErr, stepErr>>
          ELSE ReturnBeforeDefer(StepErr("mergeAndVerifyLogConfig"))
    /\ UNCHANGED <<params, warnings, img, container, retC, callErr, containers,
                   rwLayers, dirs, cleanups, log, events, env, images, fnVars, deltaVars>>

\* lines 134-143: allocate the container object, install the deferred function
NewContainer ==
    /\ pc = "newContainer"
    /\ \E ok \in BOOLEAN :
          IF ok
          THEN /\ container' = [NoContainer EXCEPT !.nil = FALSE, !.ID = NewID,
                                                   !.ImageID = img.ID]
               /\ pc' = "setSecurityOptions"
               /\ UNCHANGED <<retErr, stepErr>>
          ELSE ReturnBeforeDefer(StepErr("newContainer")) /\ UNCHANGED container
    /\ UNCHANGED <<params, warnings, img, retC, callErr, containers,
                   rwLayers, dirs, cleanups, log, events, env, images, fnVars, deltaVars>>


\* the mount label the security options opts give a container
MountLabelOf(opts) ==
    IF \E k \in 1..Len(opts) : opts[k] = "label=disable" THEN ""
    ELSE "mount_label"

\* daemon.setSecurityOptions(container, hostConfig): resolves the labels of
\* the shared namespaces (generateSecurityOpt against the registered
\* containers reg), adds them to the security options of the host config and
\* gives the container the labels these options name; fault tells whether
\* applying the options fails
setSecurityOptions(reg, c, hostConfig, fault) ==
    LET r == generateSecurityOpt(reg, hostConfig)
        opts == hostConfig.SecurityOpt \o r.labels.s
        hc == [hostConfig EXCEPT !.SecurityOpt = opts]
    IN  IF r.panic
        THEN [container |-> c, hostConfig |-> hostConfig, err |-> NilErr,
              panic |-> TRUE]
        ELSE IF r.err # NilErr
        THEN [container |-> c, hostConfig |-> hostConfig, err |-> r.err,
              panic |-> FALSE]
        ELSE IF fault
        THEN [container |-> c, hostConfig |-> hc,
              err |-> StepErr("setSecurityOptions"), panic |-> FALSE]
        ELSE [container |-> [c EXCEPT !.SecurityOpt = opts,
                                      !.MountLabel = MountLabelOf(opts)],
              hostConfig |-> hc, err |-> NilErr, panic |-> FALSE]

\* lines 145-147; a run-time panic in the call unwinds create with retErr
\* still nil, so the deferred function does not call the cleanup
SetSecurityOptions ==
    /\ pc = "setSecurityOptions"
    /\ \E fault \in BOOLEAN :
          LET r == setSecurityOptions(containers, container,
                                      params.HostConfig, fault) IN
          /\ container' = r.container
          /\ params' = [params EXCEPT !.HostConfig = r.hostConfig]
          /\ IF r.panic
             THEN pc' = "panic" /\ UNCHANGED <<retErr, stepErr>>
             ELSE IF r.err = NilErr
             THEN pc' = "setRWLayer" /\ UNCHANGED <<retErr, stepErr>>
             ELSE ReturnErr(r.err)
    /\ UNCHANGED <<warnings, img, retC, callErr, containers,
                   rwLayers, dirs, cleanups, log, events, env, images, fnVars, deltaVars>>

\* faulty variant: the RWLayer is created before the labels are known
setRWLayer_NoLabel(c, layers, fault) ==
    IF c.ImageID # "" /\ fault = "imageStore.Get"
    THEN [container |-> c, rwLayers |-> layers, err |-> StepErr("imageStore.Get")]
    ELSE IF fault = "CreateRWLayer"
    THEN [container |-> c, rwLayers |-> layers, err |-> StepErr("CreateRWLayer")]
    ELSE [container |-> [c EXCEPT !.RWLayer = TRUE],
          rwLayers |-> layers \cup {[id |-> c.ID, MountLabel |-> ""]},
          err |-> NilErr]

\* setRWLayer(container, runtime), lines 248-276; fault is the call that
\* fails, if any
setRWLayer(c, layers, fault) ==
    IF c.ImageID # "" /\ fault = "imageStore.Get"
    THEN [container |-> c, rwLayers |-> layers, err |-> StepErr("imageStore.Get")]
    ELSE IF fault = "CreateRWLayer"
    THEN [container |-> c, rwLayers |-> layers, err |-> StepErr("CreateRWLayer")]
    ELSE [container |-> [c EXCEPT !.RWLayer = TRUE],
          rwLayers |-> layers \cup {[id |-> c.ID, MountLabel |-> c.MountLabel]},
          err |-> NilErr]

\* lines 152-154
SetRWLayer ==
    /\ pc = "setRWLayer"
    /\ \E fault \in {"none", "imageStore.Get", "CreateRWLayer"} :
          LET r == setRWLayer(container, rwLayers, fault) IN
          /\ container' = r.container
          /\ rwLayers' = r.rwLayers
          /\ IF r.err = NilErr
             THEN pc' = "mkdirRoot" /\ UNCHANGED <<retErr, stepErr>>
             ELSE ReturnErr(r.err)
    /\ UNCHANGED <<params, warnings, img, retC, callErr, containers,
                   dirs, cleanups, log, events, env, images, fnVars, deltaVars>>

\* idtools.MkdirAndChown(path, 0700, rootIDs): the directory is made and then
\* chowned, so a failure may leave it made
MkdirAndChown(fs, path, fault) ==
    IF fault = "mkdir" THEN [dirs |-> fs, err |-> StepErr("mkdir")]
    ELSE IF fault = "chown" THEN [dirs |-> fs \cup {path}, err |-> StepErr("chown")]
    ELSE [dirs |-> fs \cup {path}, err |-> NilErr]

\* lines 156-159
MkdirRoot ==
    /\ pc = "mkdirRoot"
    /\ \E fault \in {"none", "mkdir", "chown"} :
          LET r == MkdirAndChown(dirs, Root(container.ID), fault) IN
          /\ dirs' = r.dirs
          /\ IF r.err = NilErr
             THEN pc' = "mkdirCheckpoint" /\ UNCHANGED <<retErr, stepErr>>
             ELSE ReturnErr(r.err)
    /\ UNCHANGED <<params, warnings, img, container, retC, callErr, containers,
                   rwLayers, cleanups, log, events, env, images, fnVars, deltaVars>>

\* lines 160-162
MkdirCheckpoint ==
    /\ pc = "mkdirCheckpoint"
    /\ \E fault \in {"none", "mkdir", "chown"} :
          LET r == MkdirAndChown(dirs, CheckpointDir(container.ID), fault) IN
          /\ dirs' = r.dirs
          /\ IF r.err = NilErr
             THEN pc' = "setHostConfig" /\ UNCHANGED <<retErr, stepErr>>
             ELSE ReturnErr(r.err)
    /\ UNCHANGED <<params, warnings, img, container, retC, callErr, containers,
                   rwLayers, cleanups, log, events, env, images, fnVars, deltaVars>>

\* lines 164-166
SetHostConfig ==
    /\ pc = "setHostConfig"
    /\ \E ok \in BOOLEAN :
          IF ok THEN pc' = "platformSettings" /\ UNCHANGED <<retErr, stepErr>>
          ELSE ReturnErr(StepErr("setHostConfig"))
    /\ UNCHANGED <<params, warnings, img, container, retC, callErr, containers,
                   rwLayers, dirs, cleanups, log, events, env, images, fnVars, deltaVars>>

\* lines 168-170
CreatePlatformSpecificSettings ==
    /\ pc = "platformSettings"
    /\ \E ok \in BOOLEAN :
          IF ok THEN pc' = "networkSettings" /\ UNCHANGED <<retErr, stepErr>>
          ELSE ReturnErr(StepErr("createContainerPlatformSpecificSettings"))
    /\ UNCHANGED <<params, warnings, img, container, retC, callErr, containers,
                   rwLayers, dirs, cleanups, log, events, env, images, fnVars, deltaVars>>

\* lines 172-180
UpdateContainerNetworkSettings ==
    /\ pc = "networkSettings"
    /\ container' = [container EXCEPT !.Endpoints =
                        IF params.NetworkingConfig.nil THEN <<>>
                        ELSE params.NetworkingConfig.EndpointsConfig]
    /\ pc' = "register"
    /\ UNCHANGED <<params, warnings, img, retErr, retC, callErr, containers,
                   rwLayers, dirs, cleanups, log, events, env, images, stepErr,
                   fnVars, deltaVars>>

\* daemon.Register(c): the container is put in the daemon's table and then
\* checkpointed, so a failure may leave it in the table
RegisterContainer(reg, c, fault) ==
    IF fault = "before" THEN [containers |-> reg, err |-> StepErr("Register")]
    ELSE [containers |-> [x \in DOMAIN reg \cup {c.ID} |->
                             IF x = c.ID THEN NoLabel ELSE reg[x]],
          err |-> IF fault = "checkpoint" THEN StepErr("Register") ELSE NilErr]

\* lines 181-183
Register ==
    /\ pc = "register"
    /\ \E fault \in {"none", "before", "checkpoint"} :
          LET r == RegisterContainer(containers, container, fault) IN
          /\ containers' = r.containers
          /\ IF r.err = NilErr
             THEN pc' = "logCreate" /\ UNCHANGED <<retErr, stepErr>>
             ELSE ReturnErr(r.err)
    /\ UNCHANGED <<params, warnings, img, container, retC, callErr,
                   rwLayers, dirs, cleanups, log, events, env, images, fnVars, deltaVars>>

\* lines 184-186
LogCreate ==
    /\ pc = "logCreate"
    /\ events' = events \o <<<<"stateCtr.set", container.ID, "stopped">>,
                             <<"LogContainerEvent", container.ID, "create">>>>
    /\ retC' = container
    /\ retErr' = NilErr
    /\ pc' = "defer"
    /\ UNCHANGED <<params, warnings, img, container, callErr, containers,
                   rwLayers, dirs, cleanups, log, env, images, stepErr, fnVars, deltaVars>>

\* daemon.cleanupContainer(container, true, true): releases the RWLayer the
\* container holds, removes its root directory (the checkpoint directory is
\* inside it), then takes it out of the daemon's table; it stops at the first
\* of these that fails
cleanupContainer(c, reg, layers, fs, fault) ==
    IF c.RWLayer /\ fault = "ReleaseRWLayer"
    THEN [containers |-> reg, rwLayers |-> layers, dirs |-> fs,
          err |-> StepErr("ReleaseRWLayer")]
    ELSE LET released == IF c.RWLayer THEN {l \in layers : l.id # c.ID}
                         ELSE layers IN
         IF fault = "EnsureRemoveAll"
         THEN [containers |-> reg, rwLayers |-> released, dirs |-> fs,
               err |-> StepErr("EnsureRemoveAll")]
         ELSE [containers |-> [x \in DOMAIN reg \ {c.ID} |-> reg[x]],
               rwLayers |-> released,
               dirs |-> {d \in fs : d[1] # c.ID},
               err |-> NilErr]

CleanupLogLine(e) == <<"failed to cleanup container on create error: ", e>>

\* faulty variant: the deferred function assigns the cleanup's error to retErr
DeferredCleanup_Mask ==
    /\ pc = "defer"
    /\ IF retErr # NilErr
       THEN \E fault \in {"none", "ReleaseRWLayer", "EnsureRemoveAll"} :
               LET r == cleanupContainer(container, containers, rwLayers,
                                         dirs, fault) IN
               /\ cleanups' = cleanups + 1
               /\ containers' = r.containers
               /\ rwLayers' = r.rwLayers
               /\ dirs' = r.dirs
               /\ log' = IF r.err # NilErr THEN Append(log, CleanupLogLine(r.err))
                         ELSE log
               /\ retErr' = IF r.err # NilErr THEN r.err ELSE retErr
       ELSE UNCHANGED <<cleanups, containers, rwLayers, dirs, log, retErr>>
    /\ pc' = "createReturned"
    /\ UNCHANGED <<params, warnings, img, container, retC, callErr,
                   events, env, images, stepErr, fnVars, deltaVars>>

\* faulty variant: the deferred function calls the cleanup whatever retErr is
DeferredCleanup_Always ==
    /\ pc = "defer"
    /\ \E fault \in {"none", "ReleaseRWLayer", "EnsureRemoveAll"} :
          LET r == cleanupContainer(container, containers, rwLayers,
                                    dirs, fault) IN
          /\ cleanups' = cleanups + 1
          /\ containers' = r.containers
          /\ rwLayers' = r.rwLayers
          /\ dirs' = r.dirs
          /\ log' = IF r.err # NilErr THEN Append(log, CleanupLogLine(r.err))
                    ELSE log
    /\ pc' = "createReturned"
    /\ UNCHANGED <<params, warnings, img, container, retErr, retC, callErr,
                   events, env, images, stepErr, fnVars, deltaVars>>

\* lines 137-143, run when create returns after line 143
DeferredCleanup ==
    /\ pc = "defer"
    /\ IF retErr # NilErr
       THEN \E fault \in {"none", "ReleaseRWLayer", "EnsureRemoveAll"} :
               LET r == cleanupContainer(container, containers, rwLayers,
                                         dirs, fault) IN
               /\ cleanups' = cleanups + 1
               /\ containers' = r.containers
               /\ rwLayers' = r.rwLayers
               /\ dirs' = r.dirs
               /\ log' = IF r.err # NilErr THEN Append(log, CleanupLogLine(r.err))
                         ELSE log
       ELSE UNCHANGED <<cleanups, containers, rwLayers, dirs, log>>
    /\ pc' = "createReturned"
    /\ UNCHANGED <<params, warnings, img, container, retErr, retC, callErr,
                   events, env, images, stepErr, fnVars, deltaVars>>

\* lines 72-78
CreateReturned ==
    /\ pc = "createReturned"
    /\ callErr' = IF retErr # NilErr THEN imageNotExistToErrcode(retErr)
                  ELSE NilErr
    /\ pc' = "done"
    /\ UNCHANGED <<params, warnings, img, container, retErr, retC, containers,
                   rwLayers, dirs, cleanups, log, events, env, images, stepErr,
                   fnVars, deltaVars>>

-----------------------------------------------------------------------------
(* DeltaCreate *)

\* the DiffIDs of the layers of the images
DiffIDs == {"sha256:a", "sha256:b"}
RootFSs == UNION {[1..n -> DiffIDs] : n \in 0..MaxLayers}

\* layer.EmptyLayer.DiffID() and the DiffID of the delta layer made for the
\* destination layer at position p
EmptyDiffID == [kind |-> "empty", pos |-> 0]
DeltaDiffID(p) == [kind |-> "delta", pos |-> p]

\* RootFS.ChainID(): a chain is identified by the sequence of its DiffIDs
ChainID(diffIDs) == diffIDs

\* l.DiffSize() of a destination layer and of a registered delta layer: that
\* of a layer without content and the largest
InputSizes == {0, MaxInputSize}
DeltaSizes == {0, MaxDeltaSize}

\* The sizes are those of the layers' contents: the layer store's DiffSize of
\* the destination layer of each changed position, and of the delta layer
\* that the position's content gives.
NoDiffSizes == [input |-> <<>>, delta |-> <<>>]

\* float64(statTotalSize) / float64(statDeltaSize): a quotient, +Inf or NaN
FloatDiv(a, b) ==
    IF b # 0 THEN [kind |-> "finite", num |-> a, den |-> b]
    ELSE IF a # 0 THEN [kind |-> "+Inf", num |-> a, den |-> b]
    ELSE [kind |-> "NaN", num |-> a, den |-> b]
One == [kind |-> "finite", num |-> 1, den |-> 1]
NoRatio == [kind |-> "unset", num |-> 0, den |-> 0]

\* faulty variant: no special case
DeltaRatio_NoGuard(statTotalSize, statDeltaSize) ==
    FloatDiv(statTotalSize, statDeltaSize)

\* lines 535-538
DeltaRatio(statTotalSize, statDeltaSize) ==
    IF statTotalSize = 0 THEN One
    ELSE FloatDiv(statTotalSize, statDeltaSize)

DeltaLocals(src, dst, same) ==
    [pc |-> "getImages", srcImg |-> src, dstImg |-> dst, same |-> same,
     i |-> 1, commonLayer |-> FALSE, deltaRootFS |-> <<>>,
     statTotalSize |-> 0, statDeltaSize |-> 0, defers |-> <<>>,
     deltaRatio |-> NoRatio, err |-> NoErrYet]

DeltaIdle ==
    /\ dc = [DeltaLocals(<<>>, <<>>, FALSE) EXCEPT !.pc = "idle"]
    /\ ls = [registered |-> <<>>, acquired |-> <<>>, released |-> <<>>,
             diffSize |-> NoDiffSizes]
    /\ is = <<>>
    /\ tmp = {}
    /\ producers = <<>>
    /\ pipes = <<>>

\* a `return err` of DeltaCreate: the deferred calls run next
Fail(e) == dc' = [dc EXCEPT !.pc = "return", !.err = e]
Defer(call) == Append(dc.defers, call)

\* lines 349-360
GetImages ==
    /\ dc.pc = "getImages"
    /\ \E fault \in {"none", "src", "dst"} :
          IF fault = "src" THEN Fail(Err("no such image", <<"deltaSrc">>))
          ELSE IF fault = "dst" THEN Fail(Err("no such image", <<"deltaDest">>))
          ELSE dc' = [dc EXCEPT !.pc = "fingerprint"]
    /\ UNCHANGED <<ls, is, tmp, producers, pipes, createVars, fnVars>>

\* lines 362-387: the signature of the source image
Fingerprint ==
    /\ dc.pc = "fingerprint"
    /\ \E fault \in {"none", "GetTarSeekStream", "SeekerSize", "Signature"} :
          IF fault = "GetTarSeekStream" THEN Fail(StepErr(fault))
          ELSE IF fault = "SeekerSize"
          THEN dc' = [dc EXCEPT !.pc = "return", !.err = StepErr(fault),
                                !.defers = Defer(<<"srcData.Close">>)]
          ELSE IF fault = "Signature"
          THEN dc' = [dc EXCEPT !.pc = "return", !.err = StepErr(fault),
                                !.defers = Defer(<<"srcData.Close">>)
                                           \o <<<<"progressReader.Close", 0>>>>]
          ELSE dc' = [dc EXCEPT !.pc = "loop",
                                !.defers = Defer(<<"srcData.Close">>)
                                           \o <<<<"progressReader.Close", 0>>>>]
    /\ UNCHANGED <<ls, is, tmp, producers, pipes, createVars, fnVars>>

\* faulty variant: a destination layer is common when the source holds its DiffID at
\* any position
IsCommonLayer_AnyPosition(src, dst, i) == \E j \in 1..Len(src) : src[j] = dst[i]

\* line 401: the layer at position i (1-based) is common
IsCommonLayer(src, dst, i) == i <= Len(src) /\ src[i] = dst[i]

\* the positions of the destination whose layer is not common
ChangedPositions(src, dst) ==
    {p \in 1..Len(dst) : ~IsCommonLayer(src, dst, p)}

\* the sizes of the layers of the changed positions: any, or the same at
\* every position
DiffSizes(src, dst) ==
    [input : [ChangedPositions(src, dst) -> InputSizes],
     delta : [ChangedPositions(src, dst) -> DeltaSizes]]
UniformDiffSizes(src, dst) ==
    {[input |-> [p \in ChangedPositions(src, dst) |-> a],
      delta |-> [p \in ChangedPositions(src, dst) |-> b]] :
        a \in InputSizes, b \in DeltaSizes}

\* lines 392-405: the head of the loop and the choice of the branch
LoopHead ==
    /\ dc.pc = "loop"
    /\ IF dc.i > Len(dc.dstImg)
       THEN dc' = [dc EXCEPT !.pc = "createImage"]
       ELSE IF IsCommonLayer(dc.srcImg, dc.dstImg, dc.i)
       THEN dc' = [dc EXCEPT !.pc = "register", !.commonLayer = TRUE]
       ELSE dc' = [dc EXCEPT !.pc = "lsGet", !.commonLayer = FALSE]
    /\ UNCHANGED <<ls, is, tmp, producers, pipes, createVars, fnVars>>


\* lines 406-415: the destination layer at position i is taken from the store
LsGet ==
    /\ dc.pc = "lsGet"
    /\ \E ok \in BOOLEAN :
          IF ok
          THEN /\ ls' = [ls EXCEPT !.acquired = Append(@, <<"dst", dc.i>>)]
               /\ dc' = [dc EXCEPT !.pc = "open",
                            !.defers = Defer(<<"ReleaseAndLog", <<"dst", dc.i>>>>)]
          ELSE Fail(StepErr("ls.Get")) /\ UNCHANGED ls
    /\ UNCHANGED <<is, tmp, producers, pipes, createVars, fnVars>>

\* faulty variant: the size of the layer replaces the counter
OpenLayer_Overwrite ==
    /\ dc.pc = "open"
    /\ \/ Fail(StepErr("TarStream"))
       \/ dc' = [dc EXCEPT !.pc = "return", !.err = StepErr("DiffSize"),
                           !.defers = Defer(<<"input.Close", dc.i>>)]
       \/ LET inputSize == ls.diffSize.input[dc.i] IN
             dc' = [dc EXCEPT !.pc = "tempFile",
                        !.statTotalSize = inputSize,
                        !.defers = Defer(<<"input.Close", dc.i>>)
                                   \o <<<<"progressReader.Close", dc.i>>>>]
    /\ UNCHANGED <<ls, is, tmp, producers, pipes, createVars, fnVars>>

\* lines 417-431: the layer's tar stream and size
OpenLayer ==
    /\ dc.pc = "open"
    /\ \/ Fail(StepErr("TarStream"))
       \/ dc' = [dc EXCEPT !.pc = "return", !.err = StepErr("DiffSize"),
                           !.defers = Defer(<<"input.Close", dc.i>>)]
       \/ LET inputSize == ls.diffSize.input[dc.i] IN
             dc' = [dc EXCEPT !.pc = "tempFile",
                        !.statTotalSize = @ + inputSize,
                        !.defers = Defer(<<"input.Close", dc.i>>)
                                   \o <<<<"progressReader.Close", dc.i>>>>]
    /\ UNCHANGED <<ls, is, tmp, producers, pipes, createVars, fnVars>>

\* io.Pipe(): nothing written, the write end open
NewPipe == [pending |-> FALSE, w |-> "open", err |-> NilErr, got |-> 0]

\* lines 433-441: the pipe and the temporary file
TempFile ==
    /\ dc.pc = "tempFile"
    /\ pipes' = [p \in DOMAIN pipes \cup {dc.i} |->
                    IF p = dc.i THEN NewPipe ELSE pipes[p]]
    /\ \E ok \in BOOLEAN :
          IF ok
          THEN /\ tmp' = tmp \cup {dc.i}
               /\ dc' = [dc EXCEPT !.pc = "spawn",
                                   !.defers = Defer(<<"os.Remove", dc.i>>)]
          ELSE Fail(StepErr("TempFile")) /\ UNCHANGED tmp
    /\ UNCHANGED <<ls, is, producers, createVars, fnVars>>

\* line 443: the go statement
Spawn ==
    /\ dc.pc = "spawn"
    /\ producers' = [p \in DOMAIN producers \cup {dc.i} |->
                        IF p = dc.i THEN "Delta" ELSE producers[p]]
    /\ dc' = [dc EXCEPT !.pc = "register"]
    /\ UNCHANGED <<ls, is, tmp, pipes, createVars, fnVars>>

\* the steps of the goroutine of lines 443-487, in order
ProducerNext(step) ==
    CASE step = "Delta" -> "Stat"
      [] step = "Stat" -> "WriteHeader"
      [] step = "WriteHeader" -> "Seek"
      [] step = "Seek" -> "Copy"
      [] step = "Copy" -> "tw.Close"
      [] step = "tw.Close" -> "pW.Close"
      [] OTHER -> "exited"
\* the steps that write to the pipe
PipeWrites == {"WriteHeader", "Copy", "tw.Close"}
Blocked(step) == "blocked in " \o step

\* faulty variant: the goroutine closes the pipe without the error
CloseWithError_Close(p, e) ==
    /\ pipes' = [pipes EXCEPT ![p].w = "eof"]
    /\ producers' = [producers EXCEPT ![p] = "exited"]

\* pW.CloseWithError(err); return
CloseWithError(p, e) ==
    /\ pipes' = [pipes EXCEPT ![p].w = "err", ![p].err = e]
    /\ producers' = [producers EXCEPT ![p] = "exited"]

\* a step of the goroutine that does not write to the pipe succeeds or fails
\* (lines 445-456, 471-474)
ProducerStep(p) ==
    /\ p \in DOMAIN producers
    /\ producers[p] \in {"Delta", "Stat", "Seek"}
    /\ \/ producers' = [producers EXCEPT ![p] = ProducerNext(@)]
          /\ UNCHANGED pipes
       \/ CloseWithError(p, StepErr(producers[p]))
    /\ UNCHANGED <<dc, ls, is, tmp, createVars, fnVars>>

\* a step that writes to the pipe fails, or hands its bytes to the pipe and
\* blocks until they are read (lines 466-469, 476-484)
ProducerWrite(p) ==
    /\ p \in DOMAIN producers
    /\ producers[p] \in PipeWrites
    /\ \/ /\ pipes' = [pipes EXCEPT ![p].pending = TRUE]
          /\ producers' = [producers EXCEPT ![p] = Blocked(@)]
       \/ CloseWithError(p, StepErr(producers[p]))
    /\ UNCHANGED <<dc, ls, is, tmp, createVars, fnVars>>

\* the bytes written have been read: the write returns
ProducerWritten(p) ==
    /\ p \in DOMAIN producers
    /\ \E step \in PipeWrites :
          /\ producers[p] = Blocked(step)
          /\ ~pipes[p].pending
          /\ producers' = [producers EXCEPT ![p] = ProducerNext(step)]
    /\ UNCHANGED <<dc, ls, is, tmp, pipes, createVars, fnVars>>

\* line 486: pW.Close(), and the goroutine ends
ProducerClose(p) ==
    /\ p \in DOMAIN producers
    /\ producers[p] = "pW.Close"
    /\ pipes' = [pipes EXCEPT ![p].w = "eof"]
    /\ producers' = [producers EXCEPT ![p] = "exited"]
    /\ UNCHANGED <<dc, ls, is, tmp, createVars, fnVars>>

\* ls.Register returned newLayer (line 490), released at return (line 494)
Registered_(kind, diffID) ==
    /\ ls' = [ls EXCEPT
          !.registered = Append(@, [kind |-> kind, pos |-> dc.i,
                                    parent |-> ChainID(dc.deltaRootFS),
                                    diffID |-> diffID]),
          !.acquired = Append(@, <<"new", dc.i>>)]
    /\ dc' = [dc EXCEPT !.pc = "afterRegister",
                        !.defers = Defer(<<"ReleaseAndLog", <<"new", dc.i>>>>)]

\* lines 490-494 for a common layer: the empty layer is registered
RegisterEmpty ==
    /\ dc.pc = "register"
    /\ dc.commonLayer
    /\ \/ Registered_("empty", EmptyDiffID)
       \/ Fail(StepErr("Register")) /\ UNCHANGED ls
    /\ UNCHANGED <<is, tmp, producers, pipes, createVars, fnVars>>

\* ls.Register reads what the goroutine wrote
RegisterRead ==
    /\ dc.pc = "register"
    /\ ~dc.commonLayer
    /\ pipes[dc.i].pending
    /\ pipes' = [pipes EXCEPT ![dc.i].pending = FALSE, ![dc.i].got = @ + 1]
    /\ UNCHANGED <<dc, ls, is, tmp, producers, createVars, fnVars>>

\* faulty variant: ls.Register returns the layer once it has read the tar
\* footer, without reading on to the end of the stream
RegisterEnd_AtFooter ==
    /\ dc.pc = "register"
    /\ ~dc.commonLayer
    /\ ~pipes[dc.i].pending
    /\ IF pipes[dc.i].w = "err"
       THEN Fail(pipes[dc.i].err) /\ UNCHANGED ls
       ELSE /\ pipes[dc.i].got = Cardinality(PipeWrites)
            /\ Registered_("delta", DeltaDiffID(dc.i))
    /\ UNCHANGED <<is, tmp, producers, pipes, createVars, fnVars>>

\* ls.Register reads the end of the stream: it registers the layer, or
\* returns the error the write end was closed with
RegisterEnd ==
    /\ dc.pc = "register"
    /\ ~dc.commonLayer
    /\ ~pipes[dc.i].pending
    /\ pipes[dc.i].w # "open"
    /\ IF pipes[dc.i].w = "eof"
       THEN Registered_("delta", DeltaDiffID(dc.i))
       ELSE Fail(pipes[dc.i].err) /\ UNCHANGED ls
    /\ UNCHANGED <<is, tmp, producers, pipes, createVars, fnVars>>

\* faulty variant: the error of ls.Register is kept and the loop goes on
RegisterFails_Continue ==
    /\ dc.pc = "register"
    /\ ~dc.commonLayer
    /\ dc' = [dc EXCEPT !.pc = "loop", !.i = @ + 1, !.err = StepErr("Register")]
    /\ UNCHANGED <<ls, is, tmp, producers, pipes, createVars, fnVars>>

\* ls.Register fails on its own and returns without reading further
RegisterFails ==
    /\ dc.pc = "register"
    /\ ~dc.commonLayer
    /\ Fail(StepErr("Register"))
    /\ UNCHANGED <<ls, is, tmp, producers, pipes, createVars, fnVars>>

\* faulty variant: the DiffID of a common layer is not appended
AfterRegister_SkipCommon ==
    /\ dc.pc = "afterRegister"
    /\ LET newLayer == ls.registered[Len(ls.registered)] IN
       IF dc.commonLayer
       THEN dc' = [dc EXCEPT !.pc = "loop", !.i = @ + 1]
       ELSE \/ Fail(StepErr("newLayer.DiffSize"))
            \/ LET deltaSize == ls.diffSize.delta[dc.i] IN
                  dc' = [dc EXCEPT !.pc = "loop", !.i = @ + 1,
                             !.statDeltaSize = @ + deltaSize,
                             !.deltaRootFS = Append(@, newLayer.diffID)]
    /\ UNCHANGED <<ls, is, tmp, producers, pipes, createVars, fnVars>>

\* lines 496-507
AfterRegister ==
    /\ dc.pc = "afterRegister"
    /\ LET newLayer == ls.registered[Len(ls.registered)] IN
       IF dc.commonLayer
       THEN dc' = [dc EXCEPT !.pc = "loop", !.i = @ + 1,
                       !.deltaRootFS = Append(@, newLayer.diffID)]
       ELSE \/ Fail(StepErr("newLayer.DiffSize"))
            \/ LET deltaSize == ls.diffSize.delta[dc.i] IN
                  dc' = [dc EXCEPT !.pc = "loop", !.i = @ + 1,
                             !.statDeltaSize = @ + deltaSize,
                             !.deltaRootFS = Append(@, newLayer.diffID)]
    /\ UNCHANGED <<ls, is, tmp, producers, pipes, createVars, fnVars>>

\* lines 510-531
CreateImage ==
    /\ dc.pc = "createImage"
    /\ \/ Fail(StepErr("is.Create")) /\ UNCHANGED is
       \/ /\ is' = Append(is, [RootFS |-> dc.deltaRootFS])
          /\ dc' = [dc EXCEPT !.pc = "report"]
    /\ UNCHANGED <<ls, tmp, producers, pipes, createVars, fnVars>>

\* lines 533-542
Report ==
    /\ dc.pc = "report"
    /\ dc' = [dc EXCEPT !.pc = "return", !.err = NilErr,
                  !.deltaRatio = DeltaRatio(dc.statTotalSize, dc.statDeltaSize)]
    /\ UNCHANGED <<ls, is, tmp, producers, pipes, createVars, fnVars>>

\* the deferred calls that release a layer reference or remove a file
HasEffect(call) == call[1] \in {"ReleaseAndLog", "os.Remove"}

\* the number of deferred calls the next step runs: the Close calls installed
\* last, which change nothing that is modelled here, and the call before them
RECURSIVE DeferredRun(_)
DeferredRun(defers) ==
    IF defers = <<>> THEN 0
    ELSE IF HasEffect(defers[Len(defers)]) THEN 1
    ELSE 1 + DeferredRun(SubSeq(defers, 1, Len(defers) - 1))

\* deferred calls run, the last one installed first: layer.ReleaseAndLog
\* releases its reference (lines 413, 494); os.Remove removes the temporary
\* file or fails, and its result is discarded (line 441)
DeferredCall ==
    /\ dc.pc = "return"
    /\ dc.defers # <<>>
    /\ LET n == DeferredRun(dc.defers)
           call == dc.defers[Len(dc.defers) + 1 - n] IN
       /\ dc' = [dc EXCEPT !.defers = SubSeq(@, 1, Len(@) - n)]
       /\ ls' = IF call[1] = "ReleaseAndLog"
                THEN [ls EXCEPT !.released = Append(@, call[2])]
                ELSE ls
       /\ IF call[1] = "os.Remove"
          THEN \E removed \in BOOLEAN :
                  tmp' = IF removed THEN tmp \ {call[2]} ELSE tmp
          ELSE tmp' = tmp
    /\ UNCHANGED <<is, producers, pipes, createVars, fnVars>>

\* DeltaCreate returns to its caller when its deferred calls have run
Return ==
    /\ dc.pc = "return"
    /\ dc.defers = <<>>
    /\ dc' = [dc EXCEPT !.pc = "returned"]
    /\ UNCHANGED <<ls, is, tmp, producers, pipes, createVars, fnVars>>


-----------------------------------------------------------------------------
(* The specification of a containerCreate call *)

UserConfigs ==
    {[Entrypoint |-> NilSlice, Cmd |-> NilSlice],
     [Entrypoint |-> Slice(<<"">>), Cmd |-> NilSlice],
     [Entrypoint |-> Slice(<<"">>), Cmd |-> Slice(<<"-c">>)],
     [Entrypoint |-> Slice(<<"/bin/sh">>), Cmd |-> NilSlice]}

Image(os, hasConfig, config) ==
    [nil |-> FALSE, ID |-> "sha256:img", OS |-> os, hasConfig |-> hasConfig,
     Config |-> config]

Images ==
    {Image("linux", TRUE, [Entrypoint |-> NilSlice, Cmd |-> Slice(<<"run">>)]),
     Image("linux", FALSE, NoImage.Config),
     Image("windows", TRUE, [Entrypoint |-> Slice(<<"">>), Cmd |-> NilSlice])}

HostConfig(opts, ipc, pid, priv) ==
    [nil |-> FALSE, SecurityOpt |-> opts, IpcMode |-> ipc, PidMode |-> pid,
     Privileged |-> priv]
HostConfigNil == [HostConfig(<<>>, "", "", FALSE) EXCEPT !.nil = TRUE]

CreateHostConfigs ==
    {HostConfigNil,
     HostConfig(<<"label=disable">>, "host", "", TRUE),
     HostConfig(<<>>, "host", "container:c1", FALSE),
     HostConfig(<<"seccomp=unconfined">>, "container:c1", "", FALSE),
     HostConfig(<<>>, "container:c1", "container:c2", FALSE),
     HostConfig(<<>>, "", "container:gone", FALSE)}

CreateNetworkingConfigs ==
    {NetworkingNil,
     Networking([n \in {"net1"} |-> EndpointIPAM("10.0.0.1", "")]),
     Networking([n \in {"net1"} |-> EndpointIPAM("10.0.0.999", "")]),
     Networking([n \in {"net1", "net2"} |-> EndpointPlain])}

Envs == {[GOOS |-> "linux", LCOW |-> FALSE],
         [GOOS |-> "solaris", LCOW |-> FALSE],
         [GOOS |-> "windows", LCOW |-> FALSE],
         [GOOS |-> "windows", LCOW |-> TRUE]}

Params(cn, ref, uc, hc, nc, pf) ==
    [ConfigNil |-> cn,
     Config |-> [Image |-> ref, Entrypoint |-> uc.Entrypoint, Cmd |-> uc.Cmd],
     HostConfig |-> hc, NetworkingConfig |-> nc, Platform |-> pf]

CreateParams ==
    {Params(FALSE, ref, uc, hc, nc, pf) :
        ref \in {"", "img", "missing"}, uc \in UserConfigs,
        hc \in CreateHostConfigs, nc \in CreateNetworkingConfigs,
        pf \in {"", "linux"}}
    \cup {Params(TRUE, "", [Entrypoint |-> NilSlice, Cmd |-> NilSlice],
                 hc, NetworkingNil, "") : hc \in CreateHostConfigs}

FnIdle ==
    /\ fn = "none"
    /\ fnIn = <<>>
    /\ fnOut = <<>>

CreateIdle ==
    /\ pc = "idle"
    /\ params = <<>>
    /\ warnings = <<>>
    /\ img = NoImage
    /\ container = NoContainer
    /\ retErr = NoErrYet
    /\ retC = NoContainer
    /\ callErr = NoErrYet
    /\ containers = <<>>
    /\ rwLayers = {}
    /\ dirs = {}
    /\ cleanups = 0
    /\ log = <<>>
    /\ events = <<>>
    /\ env = [GOOS |-> "linux", LCOW |-> FALSE]
    /\ images = <<>>
    /\ stepErr = NoErrYet

Init ==
    /\ pc = "start"
    /\ params \in CreateParams
    /\ warnings = <<>>
    /\ img = NoImage
    /\ container = NoContainer
    /\ retErr = NoErrYet
    /\ retC = NoContainer
    /\ callErr = NoErrYet
    /\ \E l2 \in {NoLabel, LabelA, LabelB} :
          containers = [x \in {"c1", "c2"} |-> IF x = "c1" THEN LabelA ELSE l2]
    /\ rwLayers = {[id |-> "c1", MountLabel |-> "mount_label"],
                   [id |-> "c2", MountLabel |-> "mount_label"]}
    /\ dirs = {Root("c1"), CheckpointDir("c1"), Root("c2"), CheckpointDir("c2")}
    /\ cleanups = 0
    /\ log = <<>>
    /\ events = <<>>
    /\ env \in Envs
    /\ \E i \in Images : images = [r \in {"img"} |-> i]
    /\ stepErr = NoErrYet
    /\ FnIdle
    /\ DeltaIdle

Next ==
    \/ CheckConfig
    \/ VerifyContainerSettings
    \/ VerifyNetworkingConfig
    \/ AdaptContainerSettings
    \/ ResolveImage
    \/ CheckPlatform
    \/ MergeAndVerifyConfig
    \/ MergeAndVerifyLogConfig
    \/ NewContainer
    \/ SetSecurityOptions
    \/ SetRWLayer
    \/ MkdirRoot
    \/ MkdirCheckpoint
    \/ SetHostConfig
    \/ CreatePlatformSpecificSettings
    \/ UpdateContainerNetworkSettings
    \/ Register
    \/ LogCreate
    \/ DeferredCleanup
    \/ CreateReturned

Spec == Init /\ [][Next]_vars


-----------------------------------------------------------------------------
(* Properties of create *)

\* create has returned to containerCreate
Returned == pc \in {"createReturned", "done"}

\* what the daemon holds for the container being created
Registered == NewID \in DOMAIN containers
OwnsRWLayer == \E l \in rwLayers : l.id = NewID
OwnsDirs == \E d \in dirs : d[1] = NewID
NothingLeft == ~Registered /\ ~OwnsRWLayer /\ ~OwnsDirs

\* a step failed after the container object was allocated
FailedAfterAllocation ==
    Returned /\ ~container.nil /\ retErr \notin {NilErr, NoErrYet}

\* C1 as stated: after any failure of a step that follows the allocation of
\* the container object, the daemon holds no registration, no RWLayer and no
\* directory of that container.
C1_RollbackAlways == FailedAfterAllocation => NothingLeft

\* the chown of the root directory failed when the RWLayer existed, the
\* cleanup failed at releasing the RWLayer, and create returned with the
\* RWLayer and the root directory still there
C1_LeftAfterFailedCleanup ==
    /\ pc = "done"
    /\ stepErr = StepErr("chown")
    /\ callErr = StepErr("chown")
    /\ cleanups = 1
    /\ log # <<>>
    /\ OwnsRWLayer
    /\ OwnsDirs

\* C2: when a step fails after the allocation and the cleanup fails too, the
\* error create returns is the error of the step that failed, never the
\* cleanup's, and the cleanup's error is logged (once) and goes nowhere else.
C2_OriginalErrorReturned ==
    (Returned /\ ~container.nil /\ log # <<>>) =>
        /\ retErr = stepErr
        /\ Len(log) = 1
        /\ log[1][1] = CleanupLogLine(NilErr)[1]
        /\ retErr # log[1][2]
        /\ pc = "done" => callErr = stepErr

\* Register failed, the cleanup failed, and the caller got Register's error
C2_Witness ==
    /\ pc = "done"
    /\ stepErr = StepErr("Register")
    /\ log = <<CleanupLogLine(StepErr("EnsureRemoveAll"))>>
    /\ callErr = StepErr("Register")

\* the errors of the steps that precede the allocation of the container object
PreAllocationError(e) ==
    \/ e = Err("error", <<"Config cannot be empty in order to create a container">>)
    \/ e = StepErr("verifyContainerSettings")
    \/ e.kind = "BadRequest"
    \/ e = StepErr("adaptContainerSettings")
    \/ e.kind = "ErrImageDoesNotExist"
    \/ e = Err("error", <<"platform on which parent image was created is not Solaris">>)
    \/ e = Err("error", <<"platform on which parent image was created is not Windows">>)
    \/ (e.kind = "error" /\ Len(e.msg) = 5 /\ e.msg[1] = "cannot create a ")
    \/ e = NoCommand
    \/ e = StepErr("mergeAndVerifyLogConfig")

\* the daemon's tables are as they were before the call
Untouched ==
    /\ DOMAIN containers = {"c1", "c2"}
    /\ {l.id : l \in rwLayers} = {"c1", "c2"}
    /\ {d[1] : d \in dirs} = {"c1", "c2"}

\* C3: a failure of a step that precedes the allocation makes the call return
\* that error with no container object allocated, nothing created or
\* registered, and the cleanup never called.
C3_NoAllocationOnEarlyFailure ==
    PreAllocationError(stepErr) =>
        /\ Returned
        /\ container.nil
        /\ Untouched
        /\ cleanups = 0
        /\ log = <<>>
        /\ events = <<>>
        /\ pc = "done" => callErr = imageNotExistToErrcode(stepErr)

\* the merged config had no command: create returned before allocating
C3_Witness ==
    /\ pc = "done"
    /\ stepErr = NoCommand
    /\ callErr = NoCommand
    /\ container.nil

\* IPC and PID are shared from two registered peers whose label sets differ
\* in any way (one of them may be empty), and nothing overrides the label
\* resolution
InconsistentPeers ==
    /\ ~params.ConfigNil
    /\ \A k \in 1..Len(params.HostConfig.SecurityOpt) :
          SplitEq(params.HostConfig.SecurityOpt[k])[1] # "label"
    /\ ~params.HostConfig.Privileged
    /\ Container(params.HostConfig.IpcMode) \in {"c1", "c2"}
    /\ Container(params.HostConfig.PidMode) \in {"c1", "c2"}
    /\ containers[Container(params.HostConfig.IpcMode)]
          # containers[Container(params.HostConfig.PidMode)]

\* the label resolution of the call has been reached and is over
LabelsResolved ==
    pc \in {"setRWLayer", "mkdirRoot", "mkdirCheckpoint", "setHostConfig",
            "platformSettings", "networkSettings", "register", "logCreate",
            "defer", "createReturned", "done"}
    /\ ~container.nil

\* C4 as stated: with IPC and PID shared from peers whose labels are
\* inconsistent, a call that reaches the label resolution ends with the
\* inconsistent-labels error, and that error is reported with no container
\* object allocated, nothing created and no rollback run.
C4_InconsistentLabelsBeforeAllocation ==
    /\ stepErr = InconsistentLabels =>
          container.nil /\ Untouched /\ cleanups = 0
    /\ (InconsistentPeers /\ LabelsResolved) => stepErr = InconsistentLabels

\* the peers' labels differ at a position: the error was reported when the
\* container object was allocated, and the cleanup ran
C4_ReportedAfterAllocation ==
    /\ pc = "done"
    /\ InconsistentPeers
    /\ callErr = InconsistentLabels
    /\ ~container.nil
    /\ cleanups = 1

\* one peer has no label: the resolution reported nothing and the container
\* was created
C4_UnlabelledPeerAccepted ==
    /\ pc = "done"
    /\ InconsistentPeers
    /\ NoLabel \in {containers[Container(params.HostConfig.IpcMode)],
                    containers[Container(params.HostConfig.PidMode)]}
    /\ callErr = NilErr
    /\ Registered


-----------------------------------------------------------------------------
(* The specification of a DeltaCreate call *)

InitDelta ==
    /\ CreateIdle
    /\ FnIdle
    /\ \E src \in RootFSs, dst \in RootFSs, same \in BOOLEAN :
          /\ same => src = dst
          /\ dc = DeltaLocals(src, dst, same)
          /\ \E sizes \in UniformDiffSizes(src, dst) :
                ls = [registered |-> <<>>, acquired |-> <<>>,
                      released |-> <<>>, diffSize |-> sizes]
    /\ is = <<>>
    /\ tmp = {}
    /\ producers = <<>>
    /\ pipes = <<>>

NextDelta ==
    \/ GetImages
    \/ Fingerprint
    \/ LoopHead
    \/ LsGet
    \/ OpenLayer
    \/ TempFile
    \/ Spawn
    \/ \E p \in 1..MaxLayers + 1 : ProducerStep(p)
    \/ \E p \in 1..MaxLayers + 1 : ProducerWrite(p)
    \/ \E p \in 1..MaxLayers + 1 : ProducerWritten(p)
    \/ \E p \in 1..MaxLayers + 1 : ProducerClose(p)
    \/ RegisterEmpty
    \/ RegisterRead
    \/ RegisterEnd
    \/ RegisterFails
    \/ AfterRegister
    \/ CreateImage
    \/ Report
    \/ DeferredCall
    \/ Return

SpecDelta == InitDelta /\ [][NextDelta]_vars

-----------------------------------------------------------------------------
(* Properties of DeltaCreate *)

DeltaSucceeded == dc.pc = "returned" /\ dc.err = NilErr

\* the number of leading positions at which the two images hold the same DiffID
RECURSIVE CommonPrefix(_, _)
CommonPrefix(src, dst) ==
    IF Len(src) = 0 \/ Len(dst) = 0 \/ Head(src) # Head(dst) THEN 0
    ELSE 1 + CommonPrefix(Tail(src), Tail(dst))

\* C9: on a successful DeltaCreate one layer is registered per destination
\* position, in order; it is the empty layer exactly when the position is
\* within the source and the DiffIDs there are equal, and a delta layer
\* otherwise; so a common prefix of k positions gives exactly k empty layers
\* before the first changed one, and the delta image's chain is as long as
\* the destination's.
C9_LayerPerPosition ==
    DeltaSucceeded =>
        LET src == dc.srcImg
            dst == dc.dstImg
            reg == ls.registered
            k == CommonPrefix(src, dst)
        IN  /\ Len(reg) = Len(dst)
            /\ \A p \in 1..Len(dst) :
                  /\ reg[p].pos = p
                  /\ reg[p].kind = "empty" <=> (p <= Len(src) /\ src[p] = dst[p])
                  /\ reg[p].kind = "delta" <=> ~(p <= Len(src) /\ src[p] = dst[p])
                  /\ p > Len(src) => reg[p].kind = "delta"
            /\ \A p \in 1..k : reg[p].kind = "empty"
            /\ k < Len(dst) => reg[k + 1].kind = "delta"
            /\ Len(is) = 1
            /\ Len(is[1].RootFS) = Len(dst)
            /\ \A p \in 1..Len(dst) : is[1].RootFS[p] = reg[p].diffID

\* one common layer, one changed layer, and a destination layer past the end
\* of the source whose DiffID the source holds elsewhere
C9_Witness ==
    /\ DeltaSucceeded
    /\ dc.srcImg = <<"sha256:a", "sha256:a">>
    /\ dc.dstImg = <<"sha256:a", "sha256:b", "sha256:a">>
    /\ [p \in 1..3 |-> ls.registered[p].kind] = <<"empty", "delta", "delta">>

\* C10: when source and destination are the same image every position is a
\* common layer, no goroutine is started, the delta size stays 0 and the ratio
\* reported is exactly 1.
C10_SameImage ==
    dc.same =>
        /\ DOMAIN producers = {}
        /\ DOMAIN pipes = {}
        /\ dc.statDeltaSize = 0
        /\ \A p \in 1..Len(ls.registered) : ls.registered[p].kind = "empty"
        /\ DeltaSucceeded =>
              /\ Len(ls.registered) = Len(dc.dstImg)
              /\ dc.deltaRatio = One

C10_Witness ==
    /\ dc.same
    /\ DeltaSucceeded
    /\ Len(dc.dstImg) >= 2
    /\ Len(ls.registered) = Len(dc.dstImg)
    /\ dc.deltaRatio = One


-----------------------------------------------------------------------------
(* Helper specifications: one call of a helper on each input of a bounded set *)

NotCalled == [err |-> NoErrYet]
Returning(f) == f \o ":returned"

\* networking configs: nil, an empty map, every single endpoint, and maps of
\* two or more endpoints
MultiEndpoints == {EndpointNil, EndpointPlain, EndpointIPAM("10.0.0.999", "")}
NetInputs ==
    {NetworkingNil, Networking(<<>>)}
    \cup {Networking([n \in {k} |-> e]) : k \in NetKeys, e \in Endpoints}
    \cup UNION {{Networking(m) : m \in [K -> MultiEndpoints]} :
                   K \in {K \in SUBSET NetKeys : Cardinality(K) >= 2}}

InitNet ==
    /\ CreateIdle
    /\ DeltaIdle
    /\ fn = "verifyNetworkingConfig"
    /\ fnIn \in NetInputs
    /\ fnOut = NotCalled

CallVerifyNetworkingConfig ==
    /\ fn = "verifyNetworkingConfig"
    /\ \E order \in RangeOrders(fnIn.EndpointsConfig) :
          fnOut' = [err |-> verifyNetworkingConfig(fnIn, order)]
    /\ fn' = Returning("verifyNetworkingConfig")
    /\ UNCHANGED <<fnIn, createVars, deltaVars>>

NextNet == CallVerifyNetworkingConfig

SpecNet == InitNet /\ [][NextNet]_vars

\* configs and images of mergeAndVerifyConfig
MergeConfigs ==
    {[Entrypoint |-> e, Cmd |-> c] :
        e \in {NilSlice, Slice(<<>>), Slice(<<"">>), Slice(<<"/bin/sh">>),
               Slice(<<"", "-x">>)},
        c \in {NilSlice, Slice(<<>>), Slice(<<"-c">>)}}
MergeImages ==
    {NoImage, Image("linux", FALSE, NoImage.Config)}
    \cup {Image("linux", TRUE, [Entrypoint |-> e, Cmd |-> c]) :
             e \in {NilSlice, Slice(<<"">>), Slice(<<"/entry">>)},
             c \in {NilSlice, Slice(<<"run">>)}}

InitMerge ==
    /\ CreateIdle
    /\ DeltaIdle
    /\ fn = "mergeAndVerifyConfig"
    /\ fnIn \in [config : MergeConfigs, img : MergeImages]
    /\ fnOut = NotCalled

CallMergeAndVerifyConfig ==
    /\ fn = "mergeAndVerifyConfig"
    /\ fnOut' = mergeAndVerifyConfig(fnIn.config, fnIn.img)
    /\ fn' = Returning("mergeAndVerifyConfig")
    /\ UNCHANGED <<fnIn, createVars, deltaVars>>

NextMerge == CallMergeAndVerifyConfig

SpecMerge == InitMerge /\ [][NextMerge]_vars

\* host configs and registered peers of generateSecurityOpt
SecOptLists ==
    {<<>>, <<"seccomp=unconfined">>, <<"label=disable">>,
     <<"no-new-privileges", "label=type:container_t">>, <<"label:disable">>,
     <<"labels=unconfined", "apparmor=unconfined">>}
SecHostConfigs ==
    {HostConfig(o, ipc, pid, priv) :
        o \in SecOptLists, ipc \in Modes, pid \in Modes, priv \in BOOLEAN}
SecPeers == [{"c1", "c2"} -> ProcessLabels]

InitSec ==
    /\ CreateIdle
    /\ DeltaIdle
    /\ fn = "generateSecurityOpt"
    /\ fnIn \in [hostConfig : SecHostConfigs, reg : SecPeers]
    /\ fnOut = NotCalled

CallGenerateSecurityOpt ==
    /\ fn = "generateSecurityOpt"
    /\ fnOut' = generateSecurityOpt(fnIn.reg, fnIn.hostConfig)
    /\ fn' = Returning("generateSecurityOpt")
    /\ UNCHANGED <<fnIn, createVars, deltaVars>>

NextSec == CallGenerateSecurityOpt

SpecSec == InitSec /\ [][NextSec]_vars

-----------------------------------------------------------------------------
(* Properties of the helpers *)

FnReturned(f) == fn = Returning(f)

\* the names an error message of verifyNetworkingConfig lists: the pieces
\* between the separators
ListedNames(msg) == [k \in 1..(Len(msg) \div 2) |-> msg[2 * k]]
Separators(msg) == {msg[2 * k + 1] : k \in 1..((Len(msg) - 1) \div 2)}

ValidV4 == {"10.0.0.1", "::ffff:10.0.0.1"}
ValidV6 == {"fe80::1"}

\* C5: verifyNetworkingConfig accepts a nil config and one with no endpoint;
\* rejects a config with two or more endpoints as a bad request that lists
\* exactly the keys supplied, each once; and validates addresses only when
\* there is exactly one endpoint.
C5_VerifyNetworkingConfig ==
    FnReturned("verifyNetworkingConfig") =>
        LET keys == DOMAIN fnIn.EndpointsConfig
            e == fnOut.err
            names == ListedNames(e.msg)
        IN  /\ (fnIn.nil \/ Cardinality(keys) = 0) => e = NilErr
            /\ Cardinality(keys) >= 2 =>
                  /\ e.kind = "BadRequest"
                  /\ e.msg[1] = "Container cannot be connected to network endpoints: "
                  /\ Len(e.msg) = 2 * Cardinality(keys)
                  /\ {names[k] : k \in 1..Len(names)} = keys
                  /\ Len(names) = Cardinality(keys)
                  /\ Separators(e.msg) = {", "}
            /\ Cardinality(keys) = 1 =>
                  LET v == fnIn.EndpointsConfig[CHOOSE k \in keys : TRUE] IN
                  /\ e = NilErr <=>
                        \/ v.nil
                        \/ ~v.ipam
                        \/ v.v4 \in ValidV4 \cup {""} /\ v.v6 \in ValidV6 \cup {""}
                  /\ e # NilErr =>
                        /\ e.kind = "BadRequest"
                        /\ e.msg[1] \in {"invalid IPv4 address: ",
                                         "invalid IPv6 address: "}
            /\ (e # NilErr /\ e.msg[1] \in {"invalid IPv4 address: ",
                                            "invalid IPv6 address: "})
                  => Cardinality(keys) = 1

\* three endpoints rejected with the three names listed
C5_Witness ==
    /\ FnReturned("verifyNetworkingConfig")
    /\ DOMAIN fnIn.EndpointsConfig = {"net1", "net2", "net3"}
    /\ fnOut.err.msg = <<"Container cannot be connected to network endpoints: ",
                         "net3", ", ", "net1", ", ", "net2">>

\* C6: mergeAndVerifyConfig, once the config has inherited the image's
\* defaults, clears an entrypoint that is the single empty string, and fails
\* with the no-command error exactly when the entrypoint and the command it
\* leaves are both empty; otherwise it succeeds.
C6_MergeAndVerifyConfig ==
    FnReturned("mergeAndVerifyConfig") =>
        LET inherited == IF ~fnIn.img.nil /\ fnIn.img.hasConfig
                         THEN merge(fnIn.config, fnIn.img.Config)
                         ELSE fnIn.config
            ep == fnOut.config.Entrypoint
            cmd == fnOut.config.Cmd
        IN  /\ cmd = inherited.Cmd
            /\ IF inherited.Entrypoint.s = <<"">>
               THEN len(ep) = 0
               ELSE ep = inherited.Entrypoint
            /\ fnOut.err = NoCommand <=> (len(ep) = 0 /\ len(cmd) = 0)
            /\ fnOut.err \in {NoCommand, NilErr}

\* the entrypoint [""] inherited from the image is cleared and, with no
\* command anywhere, the call fails
C6_Witness ==
    /\ FnReturned("mergeAndVerifyConfig")
    /\ fnIn.config.Entrypoint.nil
    /\ fnIn.img.Config.Entrypoint = Slice(<<"">>)
    /\ len(fnOut.config.Entrypoint) = 0
    /\ fnOut.err = NoCommand


\* the caller gave an explicit label-type security option
LabelTypeOpt(opt) == opt = "label" \/ \E v \in OptVals : opt = "label=" \o v
HasLabelOpt(hc) == \E k \in 1..Len(hc.SecurityOpt) : LabelTypeOpt(hc.SecurityOpt[k])

\* labelling is disabled: host IPC, host PID or privileged
HostOrPrivileged(hc) == hc.IpcMode = "host" \/ hc.PidMode = "host" \/ hc.Privileged

\* the peer a mode names, "" when it names none
PeerOf(mode) ==
    IF mode = "container:c1" THEN "c1"
    ELSE IF mode = "container:c2" THEN "c2"
    ELSE IF mode = "container:gone" THEN "gone"
    ELSE ""

\* the label set of a registered peer, as the resolver reads it
PeerLabels(reg, name) == DupSecOpt(reg[name]).s

Prefixed(labels) == [i \in 1..Len(labels) |-> "label=" \o labels[i]]

\* both namespaces are shared from registered peers and no earlier rule applies
BothSharedCase ==
    /\ FnReturned("generateSecurityOpt")
    /\ ~HasLabelOpt(fnIn.hostConfig)
    /\ ~HostOrPrivileged(fnIn.hostConfig)
    /\ PeerOf(fnIn.hostConfig.IpcMode) \in DOMAIN fnIn.reg
    /\ PeerOf(fnIn.hostConfig.PidMode) \in DOMAIN fnIn.reg

\* C7 as stated: with IPC and PID both shared from peers, identical label sets
\* (same length, same element at each index) are returned with no error, and
\* label sets that differ in any way, by an element, by their length or by one
\* being empty, give the inconsistent-labels error.
C7_BothSharedConsistency ==
    BothSharedCase =>
        LET ipc == PeerLabels(fnIn.reg, PeerOf(fnIn.hostConfig.IpcMode))
            pid == PeerLabels(fnIn.reg, PeerOf(fnIn.hostConfig.PidMode))
        IN  IF ipc = pid
            THEN /\ fnOut.err = NilErr
                 /\ ~fnOut.panic
                 /\ fnOut.labels.s = Prefixed(pid)
            ELSE fnOut.err = InconsistentLabels

\* C8: generateSecurityOpt applies its rules in order: a label-type option of
\* the caller gives no labels and no error whatever else is set; otherwise
\* host IPC, host PID or privileged gives the disable label even when a peer
\* is named; otherwise one shared namespace gives that peer's labels; with
\* none shared it gives no labels and no error. Every label has the prefix
\* "label=".
C8_SecurityOptPrecedence ==
    FnReturned("generateSecurityOpt") =>
        LET hc == fnIn.hostConfig
            ipc == PeerOf(hc.IpcMode)
            pid == PeerOf(hc.PidMode)
            none == fnOut.labels.nil /\ fnOut.err = NilErr
        IN  /\ ~fnOut.panic
            /\ HasLabelOpt(hc) => none
            /\ (~HasLabelOpt(hc) /\ HostOrPrivileged(hc)) =>
                  fnOut.labels.s = <<"label=disable">> /\ fnOut.err = NilErr
            /\ (~HasLabelOpt(hc) /\ ~HostOrPrivileged(hc)) =>
                  /\ (ipc \in DOMAIN fnIn.reg /\ pid = "") =>
                        /\ fnOut.labels.s = Prefixed(PeerLabels(fnIn.reg, ipc))
                        /\ fnOut.err = NilErr
                  /\ (pid \in DOMAIN fnIn.reg /\ ipc = "") =>
                        /\ fnOut.labels.s = Prefixed(PeerLabels(fnIn.reg, pid))
                        /\ fnOut.err = NilErr
                  /\ (ipc = "" /\ pid = "") => none
                  /\ (ipc = "gone" \/ (ipc = "" /\ pid = "gone")) =>
                        fnOut.labels.nil /\ fnOut.err.kind = "NotFound"
            /\ \A i \in 1..len(fnOut.labels) :
                  \E v \in OptVals : fnOut.labels.s[i] = "label=" \o v
            /\ fnOut.err # NilErr => fnOut.labels.nil

\* a privileged container with host IPC, a named PID peer and a label option
\* of its own gets no labels
C8_Witness ==
    /\ FnReturned("generateSecurityOpt")
    /\ fnIn.hostConfig = HostConfig(<<"no-new-privileges", "label=type:container_t">>,
                                    "host", "container:c1", TRUE)
    /\ fnOut = SecResult(NilSlice, NilErr)

-----------------------------------------------------------------------------
(* The compression ratio of lines 533-538 on every pair of counters *)

\* largest value of a size counter given to the ratio
MaxStatSize == 7

InitRatio ==
    /\ CreateIdle
    /\ DeltaIdle
    /\ fn = "DeltaRatio"
    /\ fnIn \in [statTotalSize : 0..MaxStatSize, statDeltaSize : 0..MaxStatSize]
    /\ fnOut = NotCalled

CallDeltaRatio ==
    /\ fn = "DeltaRatio"
    /\ fnOut' = [deltaRatio |-> DeltaRatio(fnIn.statTotalSize,
                                           fnIn.statDeltaSize)]
    /\ fn' = Returning("DeltaRatio")
    /\ UNCHANGED <<fnIn, createVars, deltaVars>>

NextRatio == CallDeltaRatio

SpecRatio == InitRatio /\ [][NextRatio]_vars

\* the float r is the quotient a / b of two integers, b # 0
IsQuotient(r, a, b) == r.kind = "finite" /\ r.num * b = a * r.den

\* C11 as stated: the ratio reported is total size / delta size, it is 1
\* whenever the delta size is zero, and no division by zero reaches the
\* reported value, for every pair of counters.
C11_RatioGuardsZeroDelta ==
    FnReturned("DeltaRatio") =>
        LET total == fnIn.statTotalSize
            delta == fnIn.statDeltaSize
            r == fnOut.deltaRatio
        IN  /\ r.kind = "finite"
            /\ delta = 0 => r = One
            /\ delta # 0 => IsQuotient(r, total, delta)

\* what lines 535-538 compute: 1 when the total size is zero, and the float
\* quotient otherwise, which is +Inf when only the delta size is zero
C11_RatioGuardsZeroTotal ==
    FnReturned("DeltaRatio") =>
        LET total == fnIn.statTotalSize
            delta == fnIn.statDeltaSize
            r == fnOut.deltaRatio
        IN  /\ total = 0 => r = One
            /\ (total # 0 /\ delta # 0) => IsQuotient(r, total, delta)
            /\ (total # 0 /\ delta = 0) => r.kind = "+Inf"
            /\ r.kind # "NaN"

\* a total size of 1 and a delta size of 0: the value reported is +Inf
C11_DivisionByZeroReported ==
    /\ FnReturned("DeltaRatio")
    /\ fnIn = [statTotalSize |-> 1, statDeltaSize |-> 0]
    /\ fnOut.deltaRatio.kind = "+Inf"

-----------------------------------------------------------------------------
(* DeltaCreate under the Go scheduler: a goroutine that can run does run *)

\* the steps of the goroutine that calls DeltaCreate
MainDelta ==
    \/ GetImages
    \/ Fingerprint
    \/ LoopHead
    \/ LsGet
    \/ OpenLayer
    \/ TempFile
    \/ Spawn
    \/ RegisterEmpty
    \/ RegisterRead
    \/ RegisterEnd
    \/ RegisterFails
    \/ AfterRegister
    \/ CreateImage
    \/ Report
    \/ DeferredCall
    \/ Return

\* the steps of the goroutine started at position p
Producer(p) ==
    \/ ProducerStep(p)
    \/ ProducerWrite(p)
    \/ ProducerWritten(p)
    \/ ProducerClose(p)

FairDelta ==
    /\ WF_vars(MainDelta)
    /\ \A p \in 1..MaxLayers + 1 : WF_vars(Producer(p))

\* Line 401 compares the DiffIDs of the two images at equal positions only:
\* with a destination whose layers all have one DiffID and any source, every
\* pattern of common and changed positions arises, and every length of source.
UniformRootFSs == {[k \in 1..n |-> "sha256:a"] : n \in 0..MaxLayers}

InitDeltaFair ==
    /\ CreateIdle
    /\ FnIdle
    /\ \E src \in RootFSs, dst \in UniformRootFSs :
          /\ dc = DeltaLocals(src, dst, FALSE)
          /\ \E sizes \in UniformDiffSizes(src, dst) :
                ls = [registered |-> <<>>, acquired |-> <<>>,
                      released |-> <<>>, diffSize |-> sizes]
    /\ is = <<>>
    /\ tmp = {}
    /\ producers = <<>>
    /\ pipes = <<>>

SpecDeltaFair == InitDeltaFair /\ [][NextDelta]_vars /\ FairDelta

-----------------------------------------------------------------------------
(* Properties of the goroutine and of the call that reads its pipe *)

\* the steps of the goroutine that can fail
ProducerSteps == {"Delta", "Stat", "WriteHeader", "Seek", "Copy", "tw.Close"}

\* the goroutine of position p failed and closed its pipe
ProducerFailed(p) == p \in DOMAIN pipes /\ pipes[p].w = "err"

\* a step in which the goroutine of position p ends, other than by pW.Close()
ProducerGivesUp(p) ==
    /\ p \in DOMAIN producers
    /\ producers[p] \in ProducerSteps
    /\ producers'[p] = "exited"

\* after a failure of the goroutine of position p: no layer of that position
\* is registered, no image is created, and the call returns an error
FailureObserved(p) ==
    /\ producers[p] = "exited"
    /\ \A k \in 1..Len(ls.registered) : ls.registered[k].pos # p
    /\ Len(is) = 0
    /\ dc.i = p
    /\ dc.pc \in {"register", "return", "returned"}
    /\ dc.pc # "register" =>
          dc.err \in {pipes[p].err, StepErr("Register")}

\* C12: a goroutine that fails at one of its steps closes the write end of
\* the pipe with the error of that step; the registration of that position
\* then never ends in a registered layer, the call returns an error, and the
\* registration does not stay blocked: DeltaCreate goes on to return.
C12_ProducerFailureObserved ==
    /\ [][\A p \in 1..MaxLayers :
             ProducerGivesUp(p) =>
                /\ pipes'[p].w = "err"
                /\ pipes'[p].err = StepErr(producers[p])]_vars
    /\ [](\A p \in 1..MaxLayers : ProducerFailed(p) => FailureObserved(p))
    /\ ((\E p \in 1..MaxLayers : ProducerFailed(p))
           ~> dc.pc \in {"return", "returned"})

\* the copy fails after the header was read: DeltaCreate returned that error
\* and registered nothing for the position
C12_Witness ==
    /\ dc.pc = "returned"
    /\ ProducerFailed(dc.i)
    /\ pipes[dc.i].got = 1
    /\ pipes[dc.i].err = StepErr("Copy")
    /\ dc.err = StepErr("Copy")
    /\ dc.i = 2
    /\ Len(ls.registered) = 1

-----------------------------------------------------------------------------
(* Properties of the layer loop *)

\* DeltaCreate has an error to return, or has returned one
DeltaFailed == dc.err \notin {NoErrYet, NilErr}

\* C13: once a step of DeltaCreate has failed, DeltaCreate only returns: it
\* moves to no other position, registers no layer, takes no layer, makes no
\* pipe, temporary file or goroutine, and creates no image. is.Create is
\* reached from the end of the loop only, with one layer registered for every
\* destination position and no error, and is left at once: the image store
\* holds the delta image exactly when DeltaCreate succeeded, and never more
\* than one.
C13_FailFast ==
    /\ [](DeltaFailed =>
             /\ dc.pc \in {"return", "returned"}
             /\ Len(is) = 0)
    /\ [][DeltaFailed =>
             /\ dc'.err = dc.err
             /\ dc'.i = dc.i
             /\ dc'.deltaRootFS = dc.deltaRootFS
             /\ ls'.registered = ls.registered
             /\ ls'.acquired = ls.acquired
             /\ is' = is
             /\ DOMAIN pipes' = DOMAIN pipes
             /\ DOMAIN producers' = DOMAIN producers
             /\ tmp' \subseteq tmp]_vars
    /\ [][dc'.pc = "createImage" =>
             /\ dc.pc = "loop"
             /\ dc.err = NoErrYet
             /\ Len(is) = 0
             /\ Len(ls.registered) = Len(dc.dstImg)
             /\ \A p \in 1..Len(dc.dstImg) : ls.registered[p].pos = p]_vars
    /\ [][dc.pc = "createImage" /\ dc' # dc =>
             /\ dc'.pc \in {"report", "return"}
             /\ Len(is') = 1 <=> dc'.pc = "report"]_vars
    /\ [](Len(is) <= 1)
    /\ [](dc.pc = "returned" => (Len(is) = 1 <=> dc.err = NilErr))

\* the delta-size stat of the second of three positions fails: the third is
\* never registered and no image is created
C13_Witness ==
    /\ dc.pc = "returned"
    /\ dc.err = StepErr("newLayer.DiffSize")
    /\ dc.i = 2
    /\ Len(dc.dstImg) = 3
    /\ Len(ls.registered) = 2
    /\ Len(is) = 0

-----------------------------------------------------------------------------
(* Properties of create: the deferred cleanup and the order of the steps *)

\* C14: the deferred cleanup has run exactly once when create has returned
\* an error after allocating the container object, whichever step failed; it
\* has not run before create returns, nor when create returns before the
\* allocation, nor when create succeeds: then the container is registered
\* and its RWLayer, root directory and checkpoint directory exist.
C14_CleanupExactlyOnce ==
    /\ cleanups \in {0, 1}
    /\ ~Returned => cleanups = 0
    /\ Returned =>
          /\ FailedAfterAllocation => cleanups = 1
          /\ container.nil => cleanups = 0
          /\ retErr = NilErr =>
                /\ cleanups = 0
                /\ ~container.nil
                /\ retC = container
                /\ Registered
                /\ [id |-> NewID, MountLabel |-> container.MountLabel] \in rwLayers
                /\ Root(NewID) \in dirs
                /\ CheckpointDir(NewID) \in dirs

\* the last step that can fail, Register, fails after everything else was
\* allocated: the cleanup ran once
C14_Witness ==
    /\ pc = "done"
    /\ stepErr = StepErr("Register")
    /\ container.RWLayer
    /\ cleanups = 1
    /\ events = <<>>


\* the steps of create after the allocation, in the order of lines 145-186
StepsAfterAllocation ==
    <<"setSecurityOptions", "setRWLayer", "mkdirRoot", "mkdirCheckpoint",
      "setHostConfig", "platformSettings", "networkSettings", "register",
      "logCreate">>
IsStepAfterAllocation(step) ==
    \E k \in 1..Len(StepsAfterAllocation) : StepsAfterAllocation[k] = step
StepIndex(step) ==
    CHOOSE k \in 1..Len(StepsAfterAllocation) : StepsAfterAllocation[k] = step

\* the endpoint configuration the caller gave
EndpointsGiven ==
    IF params.NetworkingConfig.nil THEN <<>>
    ELSE params.NetworkingConfig.EndpointsConfig

\* C15: the steps of create after the allocation run in one order. The
\* RWLayer is created when the security options are set, with the mount
\* label the container keeps; the root directory is made when the RWLayer
\* exists and the checkpoint directory when the root directory does; the
\* container is registered with the endpoint configuration attached; the
\* state "stopped" and then the event "create" are emitted when Register has
\* succeeded, and at no other time.
C15_StepOrder ==
    /\ [][(IsStepAfterAllocation(pc) /\ pc' # pc) =>
             \/ pc' = "defer"
             \/ /\ StepIndex(pc) < Len(StepsAfterAllocation)
                /\ pc' = StepsAfterAllocation[StepIndex(pc) + 1]]_vars
    /\ [][rwLayers' \ rwLayers # {} =>
             /\ pc = "setRWLayer"
             /\ container.SecurityOpt = params.HostConfig.SecurityOpt
             /\ ~OwnsDirs
             /\ rwLayers' \ rwLayers =
                   {[id |-> NewID,
                     MountLabel |-> MountLabelOf(params.HostConfig.SecurityOpt)]}]_vars
    /\ [](\A l \in rwLayers : l.id = NewID =>
             l.MountLabel = container.MountLabel)
    /\ [][Root(NewID) \in dirs' \ dirs =>
             pc = "mkdirRoot" /\ container.RWLayer /\ OwnsRWLayer]_vars
    /\ [][CheckpointDir(NewID) \in dirs' \ dirs =>
             pc = "mkdirCheckpoint" /\ Root(NewID) \in dirs]_vars
    /\ [][(Registered' /\ ~Registered) =>
             /\ pc = "register"
             /\ container.Endpoints = EndpointsGiven
             /\ events = <<>>]_vars
    /\ [][events' # events =>
             /\ pc = "logCreate"
             /\ Registered
             /\ retErr = NoErrYet
             /\ events = <<>>
             /\ events' = <<<<"stateCtr.set", NewID, "stopped">>,
                            <<"LogContainerEvent", NewID, "create">>>>]_vars

\* a labelled container with an endpoint configuration is created: its
\* RWLayer carries its mount label and the event follows the registration
C15_Witness ==
    /\ pc = "done"
    /\ retErr = NilErr
    /\ container.MountLabel = "mount_label"
    /\ [id |-> NewID, MountLabel |-> "mount_label"] \in rwLayers
    /\ container.Endpoints # <<>>
    /\ Registered
    /\ Len(events) = 2

-----------------------------------------------------------------------------
(* Properties of the goroutines across positions *)

\* the goroutine of position p has not ended
Running(p) == p \in DOMAIN producers /\ producers[p] # "exited"

\* C16: when the registration of a changed position has returned a layer,
\* the goroutine of that position has ended, having closed its pipe after its
\* last write was read; so while DeltaCreate works on a position, and when
\* it registers it, no goroutine of an earlier position is running.
C16_ProducerEndsBeforeNextPosition ==
    /\ \A p \in DOMAIN producers :
          (p < dc.i \/ (p = dc.i /\ dc.pc = "afterRegister")) =>
             /\ ~Running(p)
             /\ pipes[p].w = "eof"
             /\ ~pipes[p].pending
    /\ \A k \in 1..Len(ls.registered) :
          ls.registered[k].kind = "delta" => ~Running(ls.registered[k].pos)

\* the third changed position is being registered, its goroutine at work,
\* the goroutines of the first two ended
C16_Witness ==
    /\ dc.pc = "register"
    /\ dc.i = 3
    /\ DOMAIN producers = {1, 2, 3}
    /\ ~Running(1)
    /\ ~Running(2)
    /\ producers[3] = Blocked("Copy")


\* the DiffIDs of the first n layers registered
RegisteredDiffIDs(n) == [k \in 1..n |-> ls.registered[k].diffID]

\* C17: at most one goroutine is running at any moment; the k-th layer
\* registered is the layer of destination position k and its parent is the
\* chain of the k-1 layers registered before it; deltaRootFS holds the
\* DiffIDs of the layers registered, in that order, and grows by the DiffID
\* of the layer of the current position, one at a time.
C17_OneTaskStrictOrder ==
    /\ [](Cardinality({p \in DOMAIN producers : Running(p)}) <= 1)
    /\ [](\A k \in 1..Len(ls.registered) :
             /\ ls.registered[k].pos = k
             /\ ls.registered[k].parent = ChainID(RegisteredDiffIDs(k - 1)))
    /\ [](/\ Len(dc.deltaRootFS) \in {Len(ls.registered), Len(ls.registered) - 1}
          /\ dc.deltaRootFS = RegisteredDiffIDs(Len(dc.deltaRootFS)))
    /\ [][dc'.deltaRootFS # dc.deltaRootFS =>
             /\ Len(ls.registered) = dc.i
             /\ dc'.deltaRootFS = Append(dc.deltaRootFS,
                                         ls.registered[dc.i].diffID)
             /\ dc'.i = dc.i + 1]_vars
    /\ [][ls'.registered # ls.registered =>
             /\ Len(ls'.registered) = Len(ls.registered) + 1
             /\ Len(ls.registered) = dc.i - 1
             /\ Len(dc.deltaRootFS) = dc.i - 1
             /\ ~\E p \in DOMAIN producers : p # dc.i /\ Running(p)]_vars

\* a delta layer, an empty layer and a delta layer registered in that order,
\* the third on the chain of the first two
C17_Witness ==
    /\ DeltaSucceeded
    /\ Len(ls.registered) = 3
    /\ ls.registered[3].parent = <<DeltaDiffID(1), EmptyDiffID>>
    /\ ls.registered[3].diffID = DeltaDiffID(3)
    /\ is[1].RootFS = <<DeltaDiffID(1), EmptyDiffID, DeltaDiffID(3)>>

-----------------------------------------------------------------------------
(* DeltaCreate on layers of every size *)

\* a size of its own for the layer of each changed position; the source has
\* as many layers as the destination, which gives every pattern of common and
\* changed positions
InitDeltaSizes ==
    /\ CreateIdle
    /\ FnIdle
    /\ \E src \in RootFSs, dst \in UniformRootFSs :
          /\ Len(src) = Len(dst)
          /\ dc = DeltaLocals(src, dst, FALSE)
          /\ \E sizes \in DiffSizes(src, dst) :
                ls = [registered |-> <<>>, acquired |-> <<>>,
                      released |-> <<>>, diffSize |-> sizes]
    /\ is = <<>>
    /\ tmp = {}
    /\ producers = <<>>
    /\ pipes = <<>>

SpecDeltaSizes == InitDeltaSizes /\ [][NextDelta]_vars

\* the sum of f over the positions of S
RECURSIVE SumOver(_, _)
SumOver(f, S) ==
    IF S = {} THEN 0
    ELSE LET p == CHOOSE q \in S : TRUE IN f[p] + SumOver(f, S \ {p})

\* the changed positions whose destination layer was sized, and those whose
\* delta layer was
SizedPositions ==
    {p \in ChangedPositions(dc.srcImg, dc.dstImg) :
        p < dc.i \/ (p = dc.i /\ dc.pc \in {"tempFile", "spawn", "register",
                                            "afterRegister"})}
DeltaSizedPositions ==
    {p \in ChangedPositions(dc.srcImg, dc.dstImg) : p < dc.i}

\* C18: when DeltaCreate has succeeded, statTotalSize is the sum of the
\* DiffSizes of the destination layers of the changed positions and
\* statDeltaSize the sum of the DiffSizes of the delta layers registered for
\* those positions; until then each counter is the sum over the changed
\* positions already sized, and no step at a common position changes either.
C18_Counters ==
    /\ [](DeltaSucceeded =>
             LET changed == ChangedPositions(dc.srcImg, dc.dstImg) IN
             /\ changed = {p \in 1..Len(ls.registered) :
                              ls.registered[p].kind = "delta"}
             /\ dc.statTotalSize = SumOver(ls.diffSize.input, changed)
             /\ dc.statDeltaSize = SumOver(ls.diffSize.delta, changed))
    /\ [](~DeltaFailed =>
             /\ dc.statTotalSize = SumOver(ls.diffSize.input, SizedPositions)
             /\ dc.statDeltaSize = SumOver(ls.diffSize.delta,
                                           DeltaSizedPositions))
    /\ [][(dc.i <= Len(dc.dstImg)
           /\ IsCommonLayer(dc.srcImg, dc.dstImg, dc.i)) =>
             /\ dc'.statTotalSize = dc.statTotalSize
             /\ dc'.statDeltaSize = dc.statDeltaSize]_vars

\* changed, common, changed: the sizes of the first and third layers are
\* counted, each kind in its counter
C18_Witness ==
    /\ DeltaSucceeded
    /\ ChangedPositions(dc.srcImg, dc.dstImg) = {1, 3}
    /\ ls.diffSize.input = (1 :> 1 @@ 3 :> 0)
    /\ ls.diffSize.delta = (1 :> 1 @@ 3 :> 1)
    /\ dc.statTotalSize = 1
    /\ dc.statDeltaSize = 2

-----------------------------------------------------------------------------
(* Termination of the goroutines *)

\* C19 as stated: every goroutine DeltaCreate starts ends at some time, also
\* when ls.Register fails and stops reading the pipe before the goroutine
\* has written everything, so that none stays blocked on the pipe once
\* DeltaCreate has returned.
C19_ProducersTerminate ==
    \A p \in 1..MaxLayers :
        (p \in DOMAIN producers) ~> (p \in DOMAIN producers /\ ~Running(p))

\* ls.Register failed without reading, DeltaCreate has returned and run its
\* deferred calls, and the goroutine is blocked writing the tar header to a
\* pipe that nothing reads and nothing closes
C19_ProducerBlockedAfterReturn ==
    /\ dc.pc = "returned"
    /\ dc.err = StepErr("Register")
    /\ dc.i \in DOMAIN producers
    /\ producers[dc.i] = Blocked("WriteHeader")
    /\ pipes[dc.i].pending
    /\ pipes[dc.i].w = "open"
    /\ ~ENABLED NextDelta

-----------------------------------------------------------------------------
(* The layer references and the temporary files *)

\* the goroutine of position p has yet to write to, or read from, the
\* temporary file of that position (lines 444-479)
UsesTempFile(p) ==
    /\ p \in DOMAIN producers
    /\ producers[p] \in {"Delta", "Stat", "WriteHeader", Blocked("WriteHeader"),
                         "Seek", "Copy", Blocked("Copy")}

\* each reference of the sequence refs occurs once
NoDuplicates(refs) ==
    \A j, k \in 1..Len(refs) : refs[j] = refs[k] => j = k

\* when DeltaCreate has returned, every layer reference it took has been
\* released once
ReleasedOnce ==
    dc.pc = "returned" =>
        /\ NoDuplicates(ls.acquired)
        /\ NoDuplicates(ls.released)
        /\ {ls.released[k] : k \in 1..Len(ls.released)} =
              {ls.acquired[k] : k \in 1..Len(ls.acquired)}

\* no reference is released before DeltaCreate returns
ReleasedAtReturn ==
    dc.pc \notin {"return", "returned"} => ls.released = <<>>

\* C20 as stated: on every return of DeltaCreate each layer reference taken
\* with Get or returned by Register has been released exactly once and every
\* temporary file has been removed, and no temporary file is removed while
\* the goroutine that uses it is running.
C20_ReleasedRemovedNotInUse ==
    /\ []ReleasedOnce
    /\ []ReleasedAtReturn
    /\ [](dc.pc = "returned" => tmp = {})
    /\ [][\A p \in tmp \ tmp' : ~UsesTempFile(p)]_vars

\* the part of it that holds: the references
C20_ReferencesReleasedOnce ==
    /\ []ReleasedOnce
    /\ []ReleasedAtReturn

\* the temporary file is left behind: every step succeeded and os.Remove
\* failed
C20_TempFileLeft ==
    /\ DeltaSucceeded
    /\ tmp # {}

\* ls.Register failed while the goroutine was computing the delta into the
\* temporary file: DeltaCreate has returned and removed the file
C20_RemovedWhileInUse ==
    /\ dc.pc = "returned"
    /\ dc.err = StepErr("Register")
    /\ dc.i \in DOMAIN producers
    /\ producers[dc.i] = "Delta"
    /\ dc.i \notin tmp
    /\ ls.released = <<<<"dst", dc.i>>>>

====
